---- MODULE Spec2Model ----
(***************************************************************************)
(* Model of the truck driving demo: TruckController (input flags and       *)
(* per-tick kinematics), Truck (mesh root transform and wheel spin),       *)
(* CameraController (orbit gestures and the smoothed chase camera), Game   *)
(* (the frame callback) and main.js (start-up).                            *)
(*                                                                         *)
(* Numbers.  The program computes in IEEE doubles, and so does the model:  *)
(* the speed, the heading, the position and the velocity of the truck, the *)
(* orbit angles and the distance of the camera controller and the position *)
(* of the camera are the doubles the program holds, and every operation on *)
(* them (sum, product, comparison, Math.sin, Math.cos) gives the double    *)
(* the program gets.  Pointer coordinates and wheel deltas are integers,   *)
(* as the events carry them.  The spin of a wheel, which the program keeps *)
(* inside the wheel group's quaternion, is modelled as the accumulated     *)
(* angle in millionths of a radian, each increment rounded to the nearest  *)
(* millionth.                                                              *)
(***************************************************************************)
EXTENDS Integers, Sequences, FiniteSets, TLC

VARIABLES
    truckController,   \* TruckController: position, velocity, rotation, speed, controls
    truck,             \* Truck: group.position, group.rotation.y, the wheels' spin
    cameraController,  \* CameraController: orbit state and drag-session state
    camera,            \* the THREE camera: position and the point it looks at
    renderer,          \* the renderer: the frame it drew last (none before the first)
    held,              \* environment: the input sources that are physically active
    last,              \* observation: the last update, reset or camera handler that ran,
                       \* its arguments and the controllers' fields when it was called
    ticks,             \* observation: number of handler calls counted against a spec's bound
    page               \* main.js: how far the start-up got, and the PerformanceManager of the Game

vars == <<truckController, truck, cameraController, camera, renderer, held, last, ticks, page>>

----------------------------------------------------------------------------
(* Integers *)

Abs(n) == IF n < 0 THEN -n ELSE n

Sign(n) == IF n < 0 THEN -1 ELSE 1

Max(a, b) == IF a > b THEN a ELSE b

Min(a, b) == IF a < b THEN a ELSE b

----------------------------------------------------------------------------
(* Natural numbers of any size: the sequence of their digits to the base   *)
(* 2^14, least significant first, without leading zero digits (0 is <<>>). *)
(* An operator named ...V works on values; its partner without the V       *)
(* computes each argument once and applies it:                             *)
(* CHOOSE r_ \in {F(u_) : u_ \in {a}} : TRUE is F(a) with a computed once.  *)

\* a double's mantissa has 53 bits, and its least exponent (a subnormal's) is
\* -1074; four digits hold a mantissa
MantissaBits == 53
MinExponent == -1074

DigitBits == (MantissaBits + 3) \div 4
Base == 2 ^ DigitBits

Digit(a, i) == IF i >= 1 /\ i <= Len(a) THEN a[i] ELSE 0

\* a without its leading zero digits
TrimV(a) ==
    IF \A i \in 1..Len(a) : a[i] = 0 THEN <<>>
    ELSE SubSeq(a, 1, CHOOSE i \in 1..Len(a) :
                          a[i] # 0 /\ \A j \in (i + 1)..Len(a) : a[j] = 0)
Trim(a) == CHOOSE r_ \in {TrimV(u_) : u_ \in {a}} : TRUE

\* the number n, 0 <= n < 2^31
NatOfV(n) == Trim(<<n % Base, (n \div Base) % Base, n \div (Base * Base)>>)

\* The digits of the sum of the s[i] * Base^(i-1), for columns s[i] from 0 to
\* 2^31 - 1.  Each column is spread over three places, which leaves at most
\* 2 * Base + 6 in a place; what is above the base there moves one place up,
\* which leaves at most Base + 1; the carries that remain are 0 or 1, and a
\* place receives one when a place below it is at or above the base and
\* every place in between holds Base - 1
SpreadAt(s, i) ==
    (Digit(s, i) % Base) + ((Digit(s, i - 1) \div Base) % Base)
    + (Digit(s, i - 2) \div (Base * Base))
SettledAt(s, i) == (SpreadAt(s, i) % Base) + (SpreadAt(s, i - 1) \div Base)
SettledV(s) == [i \in 1..(Len(s) + 2) |-> SettledAt(s, i)] \o <<>>
CarryInto(u, i) ==
    \E j \in 1..(i - 1) : u[j] >= Base /\ \A m \in (j + 1)..(i - 1) : u[m] = Base - 1
ResolvedV(u) ==
    [i \in 1..Len(u) |-> (u[i] + (IF CarryInto(u, i) THEN 1 ELSE 0)) % Base] \o <<>>
Settled(s) == CHOOSE r_ \in {SettledV(u_) : u_ \in {s}} : TRUE
Resolved(u) == CHOOSE r_ \in {ResolvedV(u_) : u_ \in {u}} : TRUE
NormalizeV(s) == Trim(Resolved(Settled(s \o <<>>)))

NatAddV(a, b) ==
    NormalizeV([i \in 1..Max(Len(a), Len(b)) |-> Digit(a, i) + Digit(b, i)])
NatAdd(a, b) == CHOOSE r_ \in {NatAddV(u_, v_) : u_ \in {a}, v_ \in {b}} : TRUE

\* a < b
NatLessV(a, b) ==
    \E i \in 1..Max(Len(a), Len(b)) :
        /\ Digit(a, i) < Digit(b, i)
        /\ \A j \in (i + 1)..Max(Len(a), Len(b)) : Digit(a, j) = Digit(b, j)

\* a * k for 0 <= k < 2^17
NatScaleV(a, k) == NormalizeV([i \in 1..Len(a) |-> a[i] * k])
NatScale(a, k) == CHOOSE r_ \in {NatScaleV(u_, v_) : u_ \in {a}, v_ \in {k}} : TRUE

\* the quotient and the remainder of a by d, 0 < d < 2^17, digit by digit from
\* the top: rem is what the digits above the i-th have left
RECURSIVE DivFrom(_, _, _, _)
DivFrom(a, d, i, rem) ==
    IF i = 0 THEN <<>>
    ELSE CHOOSE r \in {DivFrom(a, d, i - 1, v % d) \o <<v \div d>> :
                          v \in {rem * Base + a[i]}} : TRUE
NatDivV(a, d) == Trim(DivFrom(a, d, Len(a), 0))
NatDiv(a, d) == CHOOSE r_ \in {NatDivV(u_, v_) : u_ \in {a}, v_ \in {d}} : TRUE

RECURSIVE RemFrom(_, _, _, _)
RemFrom(a, d, i, rem) ==
    IF i = 0 THEN rem
    ELSE CHOOSE r \in {RemFrom(a, d, i - 1, v) : v \in {(rem * Base + a[i]) % d}} : TRUE
NatRemV(a, d) == RemFrom(a, d, Len(a), 0)

\* a * 2^k
ShiftLeftV(a, k) ==
    LET q == k \div DigitBits
        p == 2 ^ (k % DigitBits)
        r == 2 ^ (DigitBits - (k % DigitBits))
    IN  IF a = <<>> THEN a
        ELSE [i \in 1..q |-> 0] \o
             Trim([i \in 1..(Len(a) + 1) |-> (Digit(a, i) % r) * p + (Digit(a, i - 1) \div r)])
ShiftLeft(a, k) == CHOOSE r_ \in {ShiftLeftV(u_, v_) : u_ \in {a}, v_ \in {k}} : TRUE

\* a / 2^k rounded down
ShiftRightV(a, k) ==
    LET q == k \div DigitBits
        p == 2 ^ (k % DigitBits)
        r == 2 ^ (DigitBits - (k % DigitBits))
    IN  IF Len(a) <= q THEN <<>>
        ELSE Trim([i \in 1..(Len(a) - q) |->
                      (Digit(a, q + i) \div p) + (Digit(a, q + i + 1) % p) * r])

\* bit i of a (bit 0 is the lowest), and whether any bit below bit i is set
Bit(a, i) == (Digit(a, (i \div DigitBits) + 1) \div (2 ^ (i % DigitBits))) % 2
AnyBitBelow(a, i) ==
    \/ \E d \in 1..(i \div DigitBits) : Digit(a, d) # 0
    \/ Digit(a, (i \div DigitBits) + 1) % (2 ^ (i % DigitBits)) # 0

\* the number of bits of a
BitLengthV(a) ==
    IF a = <<>> THEN 0
    ELSE DigitBits * (Len(a) - 1)
         + CHOOSE n \in 1..DigitBits : 2 ^ (n - 1) <= a[Len(a)] /\ a[Len(a)] < 2 ^ n

----------------------------------------------------------------------------
(* IEEE doubles: a sign s (-1, 0 or 1), an exponent e and a mantissa m of  *)
(* four digits, the value s * m * 2^e.  The mantissa of a number other     *)
(* than 0 has exactly 53 bits, or fewer at the least exponent, -1074 (a    *)
(* subnormal).  Every operation gives the double nearest to the exact      *)
(* result, ties to the even mantissa.  Infinities, NaN and -0 are not      *)
(* represented: they do not arise in the ranges the program's numbers stay *)
(* in.                                                                     *)

DZero == [s |-> 0, e |-> 0, m |-> <<0, 0, 0, 0>>]

\* the 14 bits of a from bit pos upwards (bits below bit 0 are 0)
BitsAt(a, pos) ==
    (Digit(a, (pos \div DigitBits) + 1) \div (2 ^ (pos % DigitBits)))
    + (Digit(a, (pos \div DigitBits) + 2) % (2 ^ (pos % DigitBits)))
      * (2 ^ (DigitBits - (pos % DigitBits)))

\* the digits of the sum of the c[i] * Base^(i-1), for columns c[i] of either
\* sign and a sum from 0 to Base^Len(c) - 1: the carries moved up, column by column
RECURSIVE CarriedFrom(_, _, _)
CarriedFrom(c, k, carry) ==
    IF k > Len(c) THEN <<>>
    ELSE CHOOSE r \in {<<v % Base>> \o CarriedFrom(c, k + 1, v \div Base) :
                          v \in {c[k] + carry}} : TRUE
CarriedV(c) == CarriedFrom(c, 1, 0)

\* four columns c[i] of either sign with the carries moved up; what is left
\* over stays in the last
FxNormV(c) ==
    <<c[1] % Base,
      (c[2] + (c[1] \div Base)) % Base,
      (c[3] + ((c[2] + (c[1] \div Base)) \div Base)) % Base,
      c[4] + ((c[3] + ((c[2] + (c[1] \div Base)) \div Base)) \div Base)>>

\* the mantissa m at the exponent e: 2^53 is 2^52 one exponent up
DPackV(s, e, m) ==
    IF m[4] = 2 ^ (MantissaBits - 3 * DigitBits)
    THEN [s |-> s, e |-> e + 1, m |-> <<0, 0, 0, m[4] \div 2>>]
    ELSE IF m = <<0, 0, 0, 0>> THEN DZero
    ELSE [s |-> s, e |-> e, m |-> m]

\* whether the bits of n below bit sh round up: more than half of bit sh, or
\* half of it next to an odd bit sh
RoundsUp(n, sh) ==
    /\ sh > 0
    /\ Bit(n, sh - 1) = 1
    /\ (AnyBitBelow(n, sh - 1) \/ Bit(n, sh) = 1)

\* s * n * 2^e with the bits of n below bit sh rounded away
DRoundAtV(s, n, e, sh) ==
    CHOOSE r_ \in {DPackV(u_, v_, w_) :
            u_ \in {s},
            v_ \in {e + sh},
            w_ \in {FxNormV([k \in 1..4 |->
                                 BitsAt(n, sh + (k - 1) * DigitBits)
                                 + (IF k = 1 /\ RoundsUp(n, sh) THEN 1 ELSE 0)] \o <<>>)}} : TRUE

\* the double nearest to s * n * 2^e, for the digits n of a natural number
DRoundV(s, n, e) ==
    IF \A i \in 1..Len(n) : n[i] = 0 THEN DZero
    ELSE CHOOSE r \in {DRoundAtV(s, n, e, sh) :
                          sh \in {Max(BitLengthV(TrimV(n)) - MantissaBits,
                                      MinExponent - e)}} : TRUE
DRound(s, n, e) ==
    CHOOSE r_ \in {DRoundV(u_, v_, w_) : u_ \in {s}, v_ \in {n}, w_ \in {e}} : TRUE

DNegV(x) == [x EXCEPT !.s = -x.s]
DNeg(x) == CHOOSE r_ \in {DNegV(u_) : u_ \in {x}} : TRUE
DAbsV(x) == [x EXCEPT !.s = x.s * x.s]
DAbs(x) == CHOOSE r_ \in {DAbsV(u_) : u_ \in {x}} : TRUE

\* x < y
DLessV(x, y) ==
    IF x.s # y.s THEN x.s < y.s
    ELSE IF x.s = 0 THEN FALSE
    ELSE IF x.s = 1 THEN x.e < y.e \/ (x.e = y.e /\ NatLessV(x.m, y.m))
    ELSE y.e < x.e \/ (x.e = y.e /\ NatLessV(y.m, x.m))
DLess(x, y) == CHOOSE r_ \in {DLessV(u_, v_) : u_ \in {x}, v_ \in {y}} : TRUE

\* beyond this distance of exponents the smaller term is below a quarter of
\* the last bit of the larger and does not change it
FarApart == MantissaBits + 2

\* x + y for x.e >= y.e, neither 0, with big = x.m * 2^(x.e - y.e): the sum of
\* big and y.m with the common sign or, with opposite signs, the difference of
\* the larger and the smaller with the sign of the larger (yLarger), rounded
DAddColumnsV(x, y, big, yLarger) ==
    [i \in 1..8 |-> IF x.s = y.s THEN big[i] + Digit(y.m, i)
                    ELSE IF yLarger THEN Digit(y.m, i) - big[i]
                    ELSE big[i] - Digit(y.m, i)] \o <<>>
DAddSignedV(x, y, big, yLarger) ==
    DRound(IF x.s # y.s /\ yLarger THEN y.s ELSE x.s,
           CarriedV(DAddColumnsV(x, y, big, yLarger)), y.e)
DAddAlignedV(x, y, big) ==
    CHOOSE r_ \in {DAddSignedV(x, y, big, yLarger) : yLarger \in {NatLessV(big, y.m)}} : TRUE
DAddOrderedV(x, y) ==
    IF x.e - y.e > FarApart THEN x
    ELSE (CHOOSE r_ \in {DAddAlignedV(u_, v_, w_) :
                  u_ \in {x},
                  v_ \in {y},
                  w_ \in {[i \in 1..8 |->
                              BitsAt(x.m, DigitBits * (i - 1) - (x.e - y.e))] \o <<>>}} : TRUE)

\* the double sum x + y
DAddV(x, y) ==
    IF x.s = 0 THEN y
    ELSE IF y.s = 0 THEN x
    ELSE DAddOrderedV(IF x.e >= y.e THEN x ELSE y, IF x.e >= y.e THEN y ELSE x)
DAdd(x, y) == CHOOSE r_ \in {DAddV(u_, v_) : u_ \in {x}, v_ \in {y}} : TRUE

DSub(x, y) == DAdd(x, DNeg(y))

\* the columns of the product of two mantissas
MantissaColumnsV(a, b) ==
    <<a[1] * b[1],
      a[1] * b[2] + a[2] * b[1],
      a[1] * b[3] + a[2] * b[2] + a[3] * b[1],
      a[1] * b[4] + a[2] * b[3] + a[3] * b[2] + a[4] * b[1],
      a[2] * b[4] + a[3] * b[3] + a[4] * b[2],
      a[3] * b[4] + a[4] * b[3],
      a[4] * b[4],
      0>>

\* the double product x * y
DMulV(x, y) ==
    IF x.s = 0 \/ y.s = 0 THEN DZero
    ELSE DRound(x.s * y.s, CarriedV(MantissaColumnsV(x.m, y.m)), x.e + y.e)
DMul(x, y) == CHOOSE r_ \in {DMulV(u_, v_) : u_ \in {x}, v_ \in {y}} : TRUE

\* the double quotient x / y for a y that is a power of 2, as maxSpeed is:
\* the exponent moves
DDivV(x, y) ==
    IF x.s = 0 THEN DZero
    ELSE DRound(x.s * y.s, x.m, x.e - y.e - (MantissaBits - 1))
DDiv(x, y) == CHOOSE r_ \in {DDivV(u_, v_) : u_ \in {x}, v_ \in {y}} : TRUE

\* Math.max(lo, Math.min(hi, v)) on doubles
DClampV(v, lo, hi) == IF DLessV(v, lo) THEN lo ELSE IF DLessV(hi, v) THEN hi ELSE v
DClamp(v, lo, hi) ==
    CHOOSE r_ \in {DClampV(u_, v_, w_) : u_ \in {v}, v_ \in {lo}, w_ \in {hi}} : TRUE

\* (double) n for an integer n, |n| < 2^31
DOfIntV(n) == IF n = 0 THEN DZero ELSE DRoundV(Sign(n), NatOfV(Abs(n)), 0)
DOfInt(n) == CHOOSE r_ \in {DOfIntV(u_) : u_ \in {n}} : TRUE

\* the double quotient x / n for a natural number n, 0 < n < 2^17: the quotient
\* of the mantissa with five digits of extra bits and a last bit that records
\* whether the division left a remainder
QuotientBits == 5 * DigitBits
DOverV(x, n) ==
    IF x.s = 0 THEN DZero
    ELSE DRound(x.s,
                NatAdd(NatScale(NatDivV(ShiftLeftV(TrimV(x.m), QuotientBits), n), 2),
                       IF NatRemV(ShiftLeftV(TrimV(x.m), QuotientBits), n) = 0
                       THEN <<>> ELSE <<1>>),
                x.e - (QuotientBits + 1))
DOver(x, n) == CHOOSE r_ \in {DOverV(u_, v_) : u_ \in {x}, v_ \in {n}} : TRUE

\* x <= y
DAtMost(x, y) == ~DLess(y, x)

\* the double a decimal literal of n millionths denotes: n / 10^6 rounded once.
\* The quotient is taken with six digits of extra bits and a last bit that
\* records whether the division left a remainder
LiteralBits == 6 * DigitBits
DoubleOfAbsV(a, byThousand) ==
    DRound(1,
           NatAdd(NatScale(NatDivV(byThousand, 1000), 2),
                  IF NatRemV(a, 1000) = 0 /\ NatRemV(byThousand, 1000) = 0
                  THEN <<>> ELSE <<1>>),
           -(LiteralBits + 1))
DoubleOfV(n) ==
    IF n = 0 THEN DZero
    ELSE IF n < 0
    THEN DNeg((CHOOSE r_ \in {DoubleOfAbsV(u_, v_) :
                       u_ \in {ShiftLeft(NatOfV(-n), LiteralBits)},
                       v_ \in {NatDiv(ShiftLeft(NatOfV(-n), LiteralBits), 1000)}} : TRUE))
    ELSE (CHOOSE r_ \in {DoubleOfAbsV(u_, v_) :
                  u_ \in {ShiftLeft(NatOfV(n), LiteralBits)},
                  v_ \in {NatDiv(ShiftLeft(NatOfV(n), LiteralBits), 1000)}} : TRUE)
DoubleOf(n) == CHOOSE r_ \in {DoubleOfV(u_) : u_ \in {n}} : TRUE

\* a * 1000, with one more digit
ThousandfoldV(a) == CarriedV([i \in 1..(Len(a) + 1) |-> Digit(a, i) * 1000])

\* n / 2^sh to the nearest integer, ties to even, for a result below 2^31
NearestShiftV(n, sh) ==
    BitsAt(n, sh) + Base * BitsAt(n, sh + DigitBits) + Base * Base * BitsAt(n, sh + 2 * DigitBits)
    + (IF sh > 0 /\ Bit(n, sh - 1) = 1 /\ (AnyBitBelow(n, sh - 1) \/ Bit(n, sh) = 1)
       THEN 1 ELSE 0)

\* x in millionths, rounded to the nearest (ties to even): |x| * 10^6 < 2^31
MicroV(x) ==
    IF x.s = 0 THEN 0
    ELSE x.s * (CHOOSE r_ \in {NearestShiftV(u_, v_) :
                        u_ \in {(CHOOSE r_ \in {ThousandfoldV(u_) :
                                         u_ \in {ThousandfoldV(x.m)}} : TRUE)},
                        v_ \in {-x.e}} : TRUE)
Micro(x) == CHOOSE r_ \in {MicroV(u_) : u_ \in {x}} : TRUE

----------------------------------------------------------------------------
(* Math.sin and Math.cos, as the engine's library computes them (fdlibm's  *)
(* sin and cos, in doubles): the argument is reduced by the multiple of    *)
(* pi/2 nearest to it, to a head y0 and a tail y1, and a polynomial is     *)
(* evaluated there.  Every step is a double operation, so the result is    *)
(* the double the library returns, last bit included.                      *)

\* the high word of |x|: the biased exponent and the top 20 bits of the fraction
HighWord(x) ==
    IF x.s = 0 THEN 0
    ELSE (x.e + 1075 - 1) * (2 ^ 20) + x.m[4] * (2 ^ 10) + (x.m[3] \div (2 ^ 4))

\* the positive double with the high word hw and a low word of 0
OfHighWord(hw) ==
    [s |-> 1, e |-> (hw \div (2 ^ 20)) - 1075,
     m |-> <<0, 0, (((2 ^ 20) + (hw % (2 ^ 20))) % (2 ^ 10)) * (2 ^ 4),
             ((2 ^ 20) + (hw % (2 ^ 20))) \div (2 ^ 10)>>]

\* the biased exponent of x
ExponentBits(x) == HighWord(x) \div (2 ^ 20)

\* (int) x for 0 <= x < 2^28, and (double) n for 0 <= n < 2^28
ToIntV(x) ==
    IF x.s = 0 \/ -x.e >= 4 * DigitBits THEN 0
    ELSE Digit(ShiftRightV(x.m, -x.e), 1) + Base * Digit(ShiftRightV(x.m, -x.e), 2)
ToInt(x) == CHOOSE r_ \in {ToIntV(u_) : u_ \in {x}} : TRUE
ToDouble(n) == IF n = 0 THEN DZero ELSE DRoundV(1, NatOfV(n), 0)

S1 == [s |-> -1, e |-> -55, m |-> <<5449, 5461, 5461, 1365>>]
S2 == [s |-> 1, e |-> -59, m |-> <<14502, 1091, 4369, 1092>>]
S3 == [s |-> -1, e |-> -65, m |-> <<8661, 9989, 6657, 1664>>]
S4 == [s |-> 1, e |-> -71, m |-> <<15997, 7879, 7733, 1479>>]
S5 == [s |-> -1, e |-> -78, m |-> <<7403, 10414, 7784, 1721>>]
S6 == [s |-> 1, e |-> -85, m |-> <<5500, 11071, 5029, 1398>>]
K1 == [s |-> 1, e |-> -57, m |-> <<5452, 5461, 5461, 1365>>]
K2 == [s |-> -1, e |-> -62, m |-> <<4471, 6917, 5825, 1456>>]
K3 == [s |-> 1, e |-> -68, m |-> <<5520, 10028, 6657, 1664>>]
K4 == [s |-> -1, e |-> -74, m |-> <<4781, 625, 9464, 1183>>]
K5 == [s |-> 1, e |-> -81, m |-> <<12740, 14034, 10731, 1147>>]
K6 == [s |-> -1, e |-> -89, m |-> <<14548, 14880, 11931, 1598>>]
invpio2 == [s |-> 1, e |-> -53, m |-> <<2179, 14119, 13062, 1303>>]
pio2_1 == [s |-> 1, e |-> -52, m |-> <<0, 4352, 8117, 1608>>]
pio2_1t == [s |-> 1, e |-> -86, m |-> <<9009, 10633, 1553, 1069>>]
pio2_2 == [s |-> 1, e |-> -86, m |-> <<0, 10624, 1553, 1069>>]
pio2_2t == [s |-> 1, e |-> -121, m |-> <<12403, 14349, 6306, 1222>>]
pio2_3 == [s |-> 1, e |-> -121, m |-> <<0, 14336, 6306, 1222>>]
pio2_3t == [s |-> 1, e |-> -156, m |-> <<2497, 5249, 14754, 1760>>]
half == [s |-> 1, e |-> -53, m |-> <<0, 0, 0, 1024>>]
one == [s |-> 1, e |-> -52, m |-> <<0, 0, 0, 1024>>]

\* the word with the exponent field e and the fraction bits f
WordOf(e, f) == e * (2 ^ 20) + f

\* the high words the library compares with: 2^-27, 0.3, 0.78125, pi/4, 3 pi/4,
\* pi/2, a quarter's step of the exponent and 0.28125
hwTiny == WordOf(996, 0)
hwThreeTenths == WordOf(1021, 209715)
hwAboveThreeQuarters == WordOf(1022, 589824)
hwQuarterPi == WordOf(1022, 598523)
hwThreeQuarterPi == WordOf(1024, 186748)
hwHalfPi == WordOf(1023, 598523)
hwQuarterStep == WordOf(2, 0)
hwQuarterCap == WordOf(1021, 131072)

\* the high words of the first 32 multiples of pi/2
npio2_hw ==
    <<1073291771, 1074340347, 1074977148, 1075388923, 1075800698, 1076025724,
      1076231611, 1076437499, 1076643386, 1076849274, 1076971356, 1077074300,
      1077177244, 1077280187, 1077383131, 1077486075, 1077589019, 1077691962,
      1077794906, 1077897850, 1077968460, 1078019932, 1078071404, 1078122876,
      1078174348, 1078225820, 1078277292, 1078328763, 1078380235, 1078431707,
      1078483179, 1078534651>>

\* __kernel_sin(x, y, iy) after its test for a tiny x: z = x * x, v = z * x,
\* r the polynomial in z
kernelSinV(x, y, iy, z, v, r) ==
    IF iy = 0 THEN DAdd(x, DMul(v, DAdd(S1, DMul(z, r))))
    ELSE DSub(x, DSub(DSub(DMul(z, DSub(DMul(half, y), DMul(v, r))), y), DMul(v, S1)))
sinPoly(z) ==
    DAdd(S2, DMul(z, DAdd(S3, DMul(z, DAdd(S4, DMul(z, DAdd(S5, DMul(z, S6))))))))
kernelSinZ(x, y, iy, z) ==
    CHOOSE r_ \in {kernelSinV(x, y, iy, z, v, r) :
            v \in {DMul(z, x)},
            r \in {sinPoly(z)}} : TRUE
kernelSin(x, y, iy) ==
    IF HighWord(x) < hwTiny THEN x ELSE (CHOOSE r_ \in {kernelSinZ(x, y, iy, z) :
                                                 z \in {DMul(x, x)}} : TRUE)

\* __kernel_cos(x, y) after its test for a tiny x: z = x * x, r the polynomial
\* in z times z, qx about x / 4
kernelCosQ(z, t, qx) == DSub(DSub(one, qx), DSub(DSub(DMul(half, z), qx), t))
kernelCosV(x, y, z, t) ==
    IF HighWord(x) < hwThreeTenths THEN DSub(one, DSub(DMul(half, z), t))
    ELSE kernelCosQ(z, t, OfHighWord(IF HighWord(x) > hwAboveThreeQuarters THEN hwQuarterCap
                                     ELSE HighWord(x) - hwQuarterStep))
cosPoly(z) ==
    DMul(z, DAdd(K1, DMul(z, DAdd(K2, DMul(z, DAdd(K3, DMul(z, DAdd(K4, DMul(z,
         DAdd(K5, DMul(z, K6)))))))))))
kernelCosZ(x, y, z) ==
    CHOOSE r_ \in {kernelCosV(x, y, z, t) :
            t \in {DSub(DMul(z, cosPoly(z)), DMul(x, y))}} : TRUE
kernelCos(x, y) ==
    IF HighWord(x) < hwTiny THEN one ELSE (CHOOSE r_ \in {kernelCosZ(x, y, z) :
                                                   z \in {DMul(x, x)}} : TRUE)

\* the quadrant n and the reduced argument y0 + y1 of __ieee754_rem_pio2
Reduced(n, y0, y1) == [n |-> n, y0 |-> y0, y1 |-> y1]
withTail(n, r, w, y0) == Reduced(n, y0, DSub(DSub(r, y0), w))
withTailOf(n, r, w) == CHOOSE r_ \in {withTail(n, r, w, y0) : y0 \in {DSub(r, w)}} : TRUE

\* |x| from pi/4 to 3 pi/4: one step of pi/2, in two parts, three near pi/2
remNearV(x, z) ==
    CHOOSE r_ \in {withTailOf(1, r, w) :
            r \in {IF HighWord(x) # hwHalfPi THEN z ELSE DSub(z, pio2_2)},
            w \in {IF HighWord(x) # hwHalfPi THEN pio2_1t ELSE pio2_2t}} : TRUE
remNear(x) == CHOOSE r_ \in {remNearV(x, z) : z \in {DSub(x, pio2_1)}} : TRUE

\* the third and the second round of the reduction of t = |x|, entered when
\* the first difference has lost more than 16 (49) bits
remThirdV(n, fn, t, r) ==
    CHOOSE r_ \in {withTailOf(n, r3, w3) :
            r3 \in {r},
            w3 \in {DSub(DMul(fn, pio2_3t), DSub(DSub(t, r), DMul(fn, pio2_3)))}} : TRUE
remThird(n, fn, t) ==
    CHOOSE r_ \in {remThirdV(n, fn, t, r) : r \in {DSub(t, DMul(fn, pio2_3))}} : TRUE
remSecondW(n, fn, j, r, w) ==
    CHOOSE r_ \in {IF j - ExponentBits(y0) > 49 THEN remThird(n, fn, r) ELSE withTail(n, r, w, y0) :
            y0 \in {DSub(r, w)}} : TRUE
remSecondV(n, fn, j, t, r) ==
    CHOOSE r_ \in {remSecondW(n, fn, j, r, w) :
            w \in {DSub(DMul(fn, pio2_2t), DSub(DSub(t, r), DMul(fn, pio2_2)))}} : TRUE
remSecond(n, fn, j, t) ==
    CHOOSE r_ \in {remSecondV(n, fn, j, t, r) : r \in {DSub(t, DMul(fn, pio2_2))}} : TRUE
remFirstV(x, n, fn, r, w, y0) ==
    IF /\ ~(n < 32 /\ HighWord(x) # npio2_hw[n])
       /\ ExponentBits(x) - ExponentBits(y0) > 16
    THEN remSecond(n, fn, ExponentBits(x), r)
    ELSE withTail(n, r, w, y0)
remFirstW(x, n, fn, r, w) ==
    CHOOSE r_ \in {remFirstV(x, n, fn, r, w, y0) : y0 \in {DSub(r, w)}} : TRUE
remFirst(x, n, fn) ==
    CHOOSE r_ \in {remFirstW(x, n, fn, r, w) :
            r \in {DSub(x, DMul(fn, pio2_1))},
            w \in {DMul(fn, pio2_1t)}} : TRUE
remMedium(x) ==
    CHOOSE r_ \in {remFirst(x, n, ToDouble(n)) :
            n \in {ToInt(DAdd(DMul(x, invpio2), half))}} : TRUE

\* __ieee754_rem_pio2 of |x| (x up to 2^19 pi; the library's reduction of
\* larger arguments is not modelled)
remPio2Abs(x) ==
    IF HighWord(x) <= hwQuarterPi THEN Reduced(0, x, DZero)
    ELSE IF HighWord(x) < hwThreeQuarterPi THEN remNear(x)
    ELSE remMedium(x)
\* for a negative x, the reduction of |x| with the signs turned
turned(q, negative) ==
    IF negative THEN Reduced(-q.n, DNegV(q.y0), DNegV(q.y1)) ELSE q
remPio2(x) ==
    CHOOSE r_ \in {turned(u_, v_) : u_ \in {remPio2Abs(DAbs(x))}, v_ \in {x.s < 0}} : TRUE

\* v or -v
signed(v, negative) == IF negative THEN DNegV(v) ELSE v

\* the switch on n & 3: the kernel of the quadrant and its sign; iy tells
\* __kernel_sin whether there is a tail
sinOfReduced(q, iy) ==
    CHOOSE r_ \in {signed(u_, v_) :
            u_ \in {IF q.n % 2 = 0 THEN kernelSin(q.y0, q.y1, iy) ELSE kernelCos(q.y0, q.y1)},
            v_ \in {q.n % 4 \in {2, 3}}} : TRUE
cosOfReduced(q, iy) ==
    CHOOSE r_ \in {signed(u_, v_) :
            u_ \in {IF q.n % 2 = 0 THEN kernelCos(q.y0, q.y1) ELSE kernelSin(q.y0, q.y1, iy)},
            v_ \in {q.n % 4 \in {1, 2}}} : TRUE

\* Math.sin(x) and Math.cos(x): up to pi/4 the kernel of x itself without a tail
\* (__kernel_sin(x, 0, 0), __kernel_cos(x, 0)), which is quadrant 0 of the
\* argument as it is; beyond, the kernel of the reduced argument
DSinV(x) ==
    CHOOSE r_ \in {sinOfReduced(u_, v_) :
            u_ \in {remPio2(x)},
            v_ \in {IF HighWord(x) <= hwQuarterPi THEN 0 ELSE 1}} : TRUE
DSin(x) == CHOOSE r_ \in {DSinV(u_) : u_ \in {x}} : TRUE
DCosV(x) ==
    CHOOSE r_ \in {cosOfReduced(u_, v_) :
            u_ \in {remPio2(x)},
            v_ \in {IF HighWord(x) <= hwQuarterPi THEN 0 ELSE 1}} : TRUE
DCos(x) == CHOOSE r_ \in {DCosV(u_) : u_ \in {x}} : TRUE

----------------------------------------------------------------------------
(* TruckController: parameters (constructor) *)

\* the doubles the literals 0.5, 0.01, 0.02, 0.98 and 0.03 denote
maxSpeed == DoubleOf(500000)
acceleration == DoubleOf(10000)
braking == DoubleOf(20000)
friction == DoubleOf(980000)
turnSpeed == DoubleOf(30000)

\* the literal 0.5 of "-this.maxSpeed * 0.5", and that product
reverseFactor == DoubleOf(500000)
reverseLimit == DMul(DNeg(maxSpeed), reverseFactor)

\* the literal 0.01 of "Math.abs(this.speed) > 0.01"
steerDeadzone == DoubleOf(10000)

\* the literal 3 of "clamp(this.position.x, -3, 3)"
roadHalfWidth == DOfInt(3)

\* the literal 2.0 of "speed * 2.0" in Truck.updateWheels
spinGain == DoubleOf(2000000)

ControlNames == {"gas", "brake", "left", "right"}

NoControls == [c \in ControlNames |-> FALSE]

Vector3(px, py, pz) == [x |-> px, y |-> py, z |-> pz]

----------------------------------------------------------------------------
(* TruckController.update, step by step *)

\* variant: friction as a constant drag of 0.02 per tick that stops the truck
Longitudinal_LinearDrag(speed, controls) ==
    IF controls["gas"] THEN DAdd(speed, acceleration)
    ELSE IF controls["brake"] THEN DSub(speed, braking)
    ELSE IF DLess(braking, speed) THEN DSub(speed, braking)
    ELSE IF DLess(speed, DNeg(braking)) THEN DAdd(speed, braking)
    ELSE DZero

\* variant: the brake is tested first, so it wins over the gas
Longitudinal_BrakeWins(speed, controls) ==
    IF controls["brake"] THEN DSub(speed, braking)
    ELSE IF controls["gas"] THEN DAdd(speed, acceleration)
    ELSE DMul(speed, friction)

\* gas / else brake / else friction
Longitudinal(speed, controls) ==
    IF controls["gas"] THEN DAdd(speed, acceleration)
    ELSE IF controls["brake"] THEN DSub(speed, braking)
    ELSE DMul(speed, friction)

\* variant: reverse speed capped at the full maxSpeed
ClampSpeed_FullReverse(speed) == DClamp(speed, DNeg(maxSpeed), maxSpeed)

\* variant: the forward cap is not enforced
ClampSpeed_FloorOnly(speed) == IF DLess(speed, reverseLimit) THEN reverseLimit ELSE speed

\* THREE.MathUtils.clamp(this.speed, -this.maxSpeed * 0.5, this.maxSpeed)
ClampSpeed(speed) == DClamp(speed, reverseLimit, maxSpeed)

\* variant: >= in place of >
SteerGate_Inclusive(speed) == ~DLess(DAbs(speed), steerDeadzone)

\* Math.abs(this.speed) > 0.01
SteerGate(speed) == DLess(steerDeadzone, DAbs(speed))

\* variant: steering not inverted in reverse
TurnDirection_Forward(speed) == 1

\* this.speed > 0 ? 1 : -1
TurnDirection(speed) == IF DLess(DZero, speed) THEN 1 ELSE -1

\* this.turnSpeed * Math.abs(this.speed) / this.maxSpeed * turnDirection
TurnStepV(speed) ==
    IF TurnDirection(speed) = 1 THEN DDiv(DMulV(turnSpeed, DAbs(speed)), maxSpeed)
    ELSE DNeg(DDiv(DMulV(turnSpeed, DAbs(speed)), maxSpeed))
TurnStep(speed) == CHOOSE r_ \in {TurnStepV(u_) : u_ \in {speed}} : TRUE

\* the two independent ifs on controls.left and controls.right: with both
\* active the step is added and then subtracted, each time rounded
SteerBoth(rotation, speed, controls) ==
    LET afterLeft == IF controls["left"] THEN DAdd(rotation, TurnStep(speed)) ELSE rotation
    IN  IF controls["right"] THEN DSub(afterLeft, TurnStep(speed)) ELSE afterLeft

Steer(rotation, speed, controls) ==
    IF SteerGate(speed) THEN SteerBoth(rotation, speed, controls) ELSE rotation

\* variant: only the left road edge is enforced
LaneClamp_LeftOnly(x) == IF DLess(x, DNeg(roadHalfWidth)) THEN DNeg(roadHalfWidth) ELSE x

\* THREE.MathUtils.clamp(this.position.x, -3, 3)
LaneClamp(x) == DClamp(x, DNeg(roadHalfWidth), roadHalfWidth)

\* variant: the update consumes the input, every flag is cleared after use
addVelocity_ConsumesInput(tc, velocity) ==
    [tc EXCEPT !.velocity = velocity,
               !.position = Vector3(LaneClamp(DAdd(tc.position.x, velocity.x)),
                                    DAdd(tc.position.y, velocity.y),
                                    DAdd(tc.position.z, velocity.z)),
               !.controls = NoControls]

\* this.position.add(this.velocity), then the lane clamp
addVelocity(tc, velocity) ==
    [tc EXCEPT !.velocity = velocity,
               !.position = Vector3(LaneClamp(DAdd(tc.position.x, velocity.x)),
                                    DAdd(tc.position.y, velocity.y),
                                    DAdd(tc.position.z, velocity.z))]

\* what update has computed when it sets the velocity: the speed and the
\* heading it steered to
course(speed, heading) == [speed |-> speed, heading |-> heading]

\* variant: the steering gate tested on the speed the update was entered with
steer_GateAtEntry(tc, speed) ==
    CHOOSE r_ \in {course(u_, v_) :
            u_ \in {speed},
            v_ \in {IF SteerGate(tc.speed) THEN SteerBoth(tc.rotation, speed, tc.controls)
                    ELSE tc.rotation}} : TRUE

\* the steering step on the speed the longitudinal step left
steer(tc, speed) ==
    CHOOSE r_ \in {course(u_, v_) :
            u_ \in {speed},
            v_ \in {Steer(tc.rotation, speed, tc.controls)}} : TRUE

\* the longitudinal step, the clamp of the speed, the steering step
computed(tc) ==
    CHOOSE r_ \in {steer(u_, v_) :
            u_ \in {tc},
            v_ \in {ClampSpeed(Longitudinal(tc.speed, tc.controls))}} : TRUE

\* velocity.x = Math.sin(rotation) * speed, velocity.z = Math.cos(rotation) * speed;
\* velocity.y is left as it is
velocityOf(tc, c) ==
    Vector3(DMul(DSin(c.heading), c.speed), tc.velocity.y, DMul(DCos(c.heading), c.speed))

\* speed and heading stored, the velocity, position.add(velocity), the lane clamp
integrate(tc, c) ==
    CHOOSE r_ \in {addVelocity(u_, v_) :
            u_ \in {[tc EXCEPT !.speed = c.speed, !.rotation = c.heading]},
            v_ \in {velocityOf(tc, c)}} : TRUE

\* the controller's fields after update(deltaTime); deltaTime is not read
updateController(tc, deltaTime) ==
    CHOOSE r_ \in {integrate(u_, v_) : u_ \in {tc}, v_ \in {computed(tc)}} : TRUE

\* variant: the mesh takes the position but not the heading
truckUpdate_PositionOnly(tr, position, rotation) ==
    [tr EXCEPT !.position = position]

\* Truck.update(position, rotation)
truckUpdate(tr, position, rotation) ==
    [tr EXCEPT !.position = position, !.rotationY = rotation]

\* variant: only the two front wheels are turned
spinAll_FrontOnly(tr, rotationSpeed) ==
    [tr EXCEPT !.wheels = <<tr.wheels[1] + rotationSpeed, tr.wheels[2] + rotationSpeed,
                            tr.wheels[3], tr.wheels[4]>>]

\* Truck.updateWheels(speed): rotateX(speed * 2.0) on every wheel group
spinAll(tr, rotationSpeed) ==
    [tr EXCEPT !.wheels = <<tr.wheels[1] + rotationSpeed, tr.wheels[2] + rotationSpeed,
                            tr.wheels[3] + rotationSpeed, tr.wheels[4] + rotationSpeed>>]

\* the increment speed * 2.0 to the nearest millionth
updateWheels(tr, speed) ==
    CHOOSE r_ \in {spinAll(u_, v_) : u_ \in {tr}, v_ \in {Micro(DMul(speed, spinGain))}} : TRUE

\* the zero vector
Origin == Vector3(DZero, DZero, DZero)

\* variant: reset forgets to zero the heading
resetController_KeepsHeading(tc) ==
    [tc EXCEPT !.position = Origin,
               !.velocity = Origin,
               !.speed = DZero,
               !.controls = NoControls]

\* TruckController.reset
resetController(tc) ==
    [tc EXCEPT !.position = Origin,
               !.velocity = Origin,
               !.rotation = DZero,
               !.speed = DZero,
               !.controls = NoControls]

\* new TruckController(truck)
NewTruckController ==
    [position |-> Origin, velocity |-> Origin,
     rotation |-> DZero, speed |-> DZero, controls |-> NoControls]

\* new Truck(settings): group at the origin, four wheel groups, no spin yet
NewTruck ==
    [position |-> Origin, rotationY |-> DZero, wheels |-> <<0, 0, 0, 0>>]

----------------------------------------------------------------------------
(* TruckController.setupControls / addButtonListeners: the input handlers *)

\* the keys of the keyboard, as the (e.key, e.code) pairs their events carry
KeyEvents ==
    { [key |-> "ArrowUp", code |-> "ArrowUp"], [key |-> "ArrowDown", code |-> "ArrowDown"],
      [key |-> "ArrowLeft", code |-> "ArrowLeft"], [key |-> "ArrowRight", code |-> "ArrowRight"],
      [key |-> "w", code |-> "KeyW"], [key |-> "s", code |-> "KeyS"],
      [key |-> "a", code |-> "KeyA"], [key |-> "d", code |-> "KeyD"],
      [key |-> " ", code |-> "Space"] }

ArrowKeyEvents == {e \in KeyEvents : e.key \in {"ArrowUp", "ArrowDown", "ArrowLeft", "ArrowRight"}}

\* String.prototype.toLowerCase on the key names above
toLowerCase(k) ==
    CASE k = "ArrowUp" -> "arrowup"
      [] k = "ArrowDown" -> "arrowdown"
      [] k = "ArrowLeft" -> "arrowleft"
      [] k = "ArrowRight" -> "arrowright"
      [] OTHER -> k

\* the if / else-if chain shared by the keydown and keyup listeners:
\* the control the event is bound to, "none" when the chain falls through
keyControl(e) ==
    LET key == toLowerCase(e.key)
        code == e.code
    IN  IF key = "arrowup" \/ code = "KeyW" THEN "gas"
        ELSE IF key = "arrowdown" \/ code = "KeyS" THEN "brake"
        ELSE IF key = "arrowleft" \/ code = "KeyA" THEN "left"
        ELSE IF key = "arrowright" \/ code = "KeyD" THEN "right"
        ELSE "none"

\* this.controls[name] = value, nothing for a key bound to no control
setControl(tc, name, value) ==
    IF name \in ControlNames THEN [tc EXCEPT !.controls[name] = value] ELSE tc

\* the buttons getElementById finds (addButtonListeners returns early on a missing one)
Buttons == ControlNames

KeySource(e) == <<"key", e.code>>
TouchSource(b) == <<"touch", b>>
MouseSource(b) == <<"mouse", b>>

\* the input sources bound to a control: its two keys, a touch and the mouse on its button
BoundSources(c) ==
    {KeySource(e) : e \in {k \in KeyEvents : keyControl(k) = c}}
        \cup {TouchSource(c), MouseSource(c)}

\* the record of a handler call: its name and arguments, the controllers, the truck
\* and the camera as they were when it was called, and the calls it made in order
Observed(op, arg, calls) ==
    [op |-> op, arg |-> arg, tc |-> truckController, tr |-> truck,
     cc |-> cameraController, cam |-> camera, calls |-> calls]

Observe(op, arg) == last' = Observed(op, arg, <<>>)

KeyDown(e) ==
    /\ truckController' = setControl(truckController, keyControl(e), TRUE)
    /\ held' = held \cup {KeySource(e)}
    /\ UNCHANGED <<truck, cameraController, camera, renderer, page, last>>

KeyUp(e) ==
    /\ truckController' = setControl(truckController, keyControl(e), FALSE)
    /\ held' = held \ {KeySource(e)}
    /\ UNCHANGED <<truck, cameraController, camera, renderer, page, last>>

ButtonTouchStart(b) ==
    /\ b \in Buttons
    /\ truckController' = setControl(truckController, b, TRUE)
    /\ held' = held \cup {TouchSource(b)}
    /\ UNCHANGED <<truck, cameraController, camera, renderer, page, last>>

ButtonTouchEnd(b) ==
    /\ b \in Buttons
    /\ truckController' = setControl(truckController, b, FALSE)
    /\ held' = held \ {TouchSource(b)}
    /\ UNCHANGED <<truck, cameraController, camera, renderer, page, last>>

\* the finger leaves the button without a touchend reaching its listener: the
\* source is no longer active and no handler runs
ButtonTouchLost(b) ==
    /\ b \in Buttons
    /\ TouchSource(b) \in held
    /\ held' = held \ {TouchSource(b)}
    /\ UNCHANGED <<truckController, truck, cameraController, camera, renderer, page, last>>

ButtonMouseDown(b) ==
    /\ b \in Buttons
    /\ truckController' = setControl(truckController, b, TRUE)
    /\ held' = held \cup {MouseSource(b)}
    /\ UNCHANGED <<truck, cameraController, camera, renderer, page, last>>

ButtonMouseUp(b) ==
    /\ b \in Buttons
    /\ truckController' = setControl(truckController, b, FALSE)
    /\ held' = held \ {MouseSource(b)}
    /\ UNCHANGED <<truck, cameraController, camera, renderer, page, last>>

ButtonMouseLeave(b) ==
    /\ b \in Buttons
    /\ truckController' = setControl(truckController, b, FALSE)
    /\ held' = held \ {MouseSource(b)}
    /\ UNCHANGED <<truck, cameraController, camera, renderer, page, last>>

----------------------------------------------------------------------------
(* TruckController.update and reset as actions *)

\* the elapsed times clock.getDelta() hands to update, in microseconds: none (two
\* frames in the same millisecond) and a sixtieth of a second
DeltaTimes == {0, 16667}

\* clock.getDelta() between two frames at 60 frames a second
FrameDeltas == {16667}

\* update(deltaTime) on the pair of controller and truck: the controller's own
\* fields, then this.truck.update(position, rotation), then this.truck.updateWheels(speed)
meshAfter(tc, tr) ==
    [tc |-> tc, truck |-> updateWheels(truckUpdate(tr, tc.position, tc.rotation), tc.speed)]

updated(w, c) ==
    CHOOSE r_ \in {meshAfter(u_, v_) : u_ \in {integrate(w.tc, c)}, v_ \in {w.truck}} : TRUE
update(w, deltaTime) ==
    CHOOSE r_ \in {updated(u_, v_) : u_ \in {w}, v_ \in {computed(w.tc)}} : TRUE

Update(deltaTime) ==
    \E w \in {update([tc |-> truckController, truck |-> truck], deltaTime)} :
        /\ truckController' = w.tc
        /\ truck' = w.truck
        /\ Observe("update", <<deltaTime>>)
        /\ UNCHANGED <<cameraController, camera, renderer, page, held>>

\* variant: the vehicle reset also puts the camera back behind the truck
Reset_AlsoCamera ==
    /\ truckController' = resetController(truckController)
    /\ cameraController' = [cameraController EXCEPT !.angleH = DZero,
                                                    !.angleV = DoubleOf(300000)]
    /\ Observe("reset", <<>>)
    /\ UNCHANGED <<truck, camera, renderer, page, held>>

Reset ==
    /\ truckController' = resetController(truckController)
    /\ Observe("reset", <<>>)
    /\ UNCHANGED <<truck, cameraController, camera, renderer, page, held>>

----------------------------------------------------------------------------
(* CameraController *)

\* Math.PI
PI == [s |-> 1, e |-> -51, m |-> <<11544, 4368, 8117, 1608>>]

\* the literals 0.1 and Math.PI / 3 of the constructor
minAngleV == DoubleOf(100000)
maxAngleV == DOver(PI, 3)

\* 0.003 radians per pixel
sensitivity == DoubleOf(3000)

\* the literals 5 and 30 of the wheel listener
minDistance == DOfInt(5)
maxDistance == DOfInt(30)

\* the literal 0.01 of "e.deltaY * 0.01"
zoomGain == DoubleOf(10000)

\* the literal 0.1 of "lerp(targetCameraPos, 0.1)"
lerpAlpha == DoubleOf(100000)

\* the literal 1 of "lookAtPos.y += 1"
lookAtHeightOffset == DOfInt(1)

\* the literals 0.3 and 15 of the constructor and of reset
defaultAngleV == DoubleOf(300000)
defaultDistance == DOfInt(15)

\* new CameraController(camera)
NewCameraController ==
    [distance |-> defaultDistance, height |-> DOfInt(8), angleH |-> DZero,
     angleV |-> defaultAngleV,
     isRotating |-> FALSE, lastX |-> 0, lastY |-> 0,
     touchStartX |-> 0, touchStartY |-> 0, isTouchRotating |-> FALSE]

\* Game.setupCamera: camera.position.set(0, 8, 15), camera.lookAt(0, 0, 0)
NewCamera ==
    [position |-> Vector3(DZero, DOfInt(8), DOfInt(15)), lookAt |-> Vector3(DZero, DZero, DZero)]

\* variant: the lower bound is not enforced
ClampAngleV_MaxOnly(a) == IF DLess(maxAngleV, a) THEN maxAngleV ELSE a

\* Math.max(this.minAngleV, Math.min(this.maxAngleV, this.angleV))
ClampAngleV(a) == DClamp(a, minAngleV, maxAngleV)

\* variant: the upper bound is not enforced
ClampDistance_MinOnly(d) == IF DLess(d, minDistance) THEN minDistance ELSE d

\* Math.max(5, Math.min(30, this.distance))
ClampDistance(d) == DClamp(d, minDistance, maxDistance)

\* the body shared by the mousemove and touchmove listeners: pixel deltas to angles
rotateBy(cc, deltaX, deltaY) ==
    [cc EXCEPT !.angleH = DSub(cc.angleH, DMul(DOfInt(deltaX), sensitivity)),
               !.angleV = ClampAngleV(DAdd(cc.angleV, DMul(DOfInt(deltaY), sensitivity)))]

\* canvas mousedown; 2 is the right button
mousedown(cc, button, clientX, clientY) ==
    IF button = 2
    THEN [cc EXCEPT !.isRotating = TRUE, !.lastX = clientX, !.lastY = clientY]
    ELSE cc

\* canvas mousemove
mousemove(cc, clientX, clientY) ==
    IF cc.isRotating
    THEN [rotateBy(cc, clientX - cc.lastX, clientY - cc.lastY)
            EXCEPT !.lastX = clientX, !.lastY = clientY]
    ELSE cc

\* window mouseup
mouseup(cc, button) ==
    IF button = 2 THEN [cc EXCEPT !.isRotating = FALSE] ELSE cc

\* canvas touchstart; touches is e.touches.length, clientX/Y those of e.touches[0]
touchstart(cc, touches, clientX, clientY) ==
    IF touches = 2
    THEN [cc EXCEPT !.isTouchRotating = TRUE,
                    !.touchStartX = clientX, !.touchStartY = clientY]
    ELSE cc

\* variant: the number of touches is not looked at
touchmove_AnyCount(cc, touches, clientX, clientY) ==
    IF cc.isTouchRotating
    THEN [rotateBy(cc, clientX - cc.touchStartX, clientY - cc.touchStartY)
            EXCEPT !.touchStartX = clientX, !.touchStartY = clientY]
    ELSE cc

\* canvas touchmove
touchmove(cc, touches, clientX, clientY) ==
    IF cc.isTouchRotating /\ touches = 2
    THEN [rotateBy(cc, clientX - cc.touchStartX, clientY - cc.touchStartY)
            EXCEPT !.touchStartX = clientX, !.touchStartY = clientY]
    ELSE cc

\* canvas touchend
touchend(cc, touches) ==
    IF touches < 2 THEN [cc EXCEPT !.isTouchRotating = FALSE] ELSE cc

\* canvas wheel
wheel(cc, deltaY) ==
    [cc EXCEPT !.distance = ClampDistance(DAdd(cc.distance, DMul(DOfInt(deltaY), zoomGain)))]

\* variant: reset also restores the distance
cameraReset_AlsoZoom(cc) ==
    [cc EXCEPT !.angleH = DZero, !.angleV = defaultAngleV, !.distance = defaultDistance]

\* CameraController.reset
cameraReset(cc) == [cc EXCEPT !.angleH = DZero, !.angleV = defaultAngleV]

CanvasMouseDown(button, clientX, clientY) ==
    /\ cameraController' = mousedown(cameraController, button, clientX, clientY)
    /\ Observe("canvas.mousedown", <<button, clientX, clientY>>)
    /\ UNCHANGED <<truckController, truck, camera, renderer, page, held>>

CanvasMouseMove(clientX, clientY) ==
    /\ cameraController' = mousemove(cameraController, clientX, clientY)
    /\ Observe("canvas.mousemove", <<clientX, clientY>>)
    /\ UNCHANGED <<truckController, truck, camera, renderer, page, held>>

WindowMouseUp(button) ==
    /\ cameraController' = mouseup(cameraController, button)
    /\ Observe("window.mouseup", <<button>>)
    /\ UNCHANGED <<truckController, truck, camera, renderer, page, held>>

CanvasTouchStart(touches, clientX, clientY) ==
    /\ cameraController' = touchstart(cameraController, touches, clientX, clientY)
    /\ Observe("canvas.touchstart", <<touches, clientX, clientY>>)
    /\ UNCHANGED <<truckController, truck, camera, renderer, page, held>>

CanvasTouchMove(touches, clientX, clientY) ==
    /\ cameraController' = touchmove(cameraController, touches, clientX, clientY)
    /\ Observe("canvas.touchmove", <<touches, clientX, clientY>>)
    /\ UNCHANGED <<truckController, truck, camera, renderer, page, held>>

CanvasTouchEnd(touches) ==
    /\ cameraController' = touchend(cameraController, touches)
    /\ Observe("canvas.touchend", <<touches>>)
    /\ UNCHANGED <<truckController, truck, camera, renderer, page, held>>

CanvasWheel(deltaY) ==
    /\ cameraController' = wheel(cameraController, deltaY)
    /\ Observe("canvas.wheel", <<deltaY>>)
    /\ UNCHANGED <<truckController, truck, camera, renderer, page, held>>

CameraReset ==
    /\ cameraController' = cameraReset(cameraController)
    /\ Observe("camera.reset", <<>>)
    /\ UNCHANGED <<truckController, truck, camera, renderer, page, held>>
\* TruckController.getPosition (a clone) and getRotation
getPosition(tc) == tc.position
getRotation(tc) == tc.rotation

\* const totalAngle = targetRotation + this.angleH
totalAngle(cc, targetRotation) == DAdd(targetRotation, cc.angleH)

\* offsetX = Math.sin(totalAngle) * distance * Math.cos(angleV),
\* offsetY = distance * Math.sin(angleV),
\* offsetZ = Math.cos(totalAngle) * distance * Math.cos(angleV),
\* for the values of totalAngle and Math.cos(angleV)
offsetAround(cc, angle, cosV) ==
    Vector3(DMul(DMul(DSin(angle), cc.distance), cosV),
            DMul(cc.distance, DSin(cc.angleV)),
            DMul(DMul(DCos(angle), cc.distance), cosV))
cameraOffset(cc, targetRotation) ==
    CHOOSE r_ \in {offsetAround(u_, v_, w_) :
            u_ \in {cc},
            v_ \in {totalAngle(cc, targetRotation)},
            w_ \in {DCos(cc.angleV)}} : TRUE

\* the clone of targetPosition with x -= offsetX, z -= offsetZ, y += offsetY
offsetFrom(position, offset) ==
    Vector3(DSub(position.x, offset.x), DAdd(position.y, offset.y),
            DSub(position.z, offset.z))

\* targetCameraPos as update holds it before the lerp
targetCameraPos(cc, targetPosition, targetRotation) ==
    CHOOSE r_ \in {offsetFrom(u_, v_) :
            u_ \in {targetPosition},
            v_ \in {cameraOffset(cc, targetRotation)}} : TRUE

\* one coordinate of lerp: this.x += (v.x - this.x) * alpha
lerpAxis(p, v, alpha) == DAdd(p, DMul(DSub(v, p), alpha))

\* variant: the step lands beyond v, by alpha of the gap
lerpAxis_Overshoot(p, v, alpha) == DAdd(v, DMul(DSub(v, p), alpha))
lerp_Overshoot(p, v, alpha) ==
    Vector3(lerpAxis_Overshoot(p.x, v.x, alpha), lerpAxis_Overshoot(p.y, v.y, alpha),
            lerpAxis_Overshoot(p.z, v.z, alpha))

\* THREE.Vector3.lerp(v, alpha)
lerp(p, v, alpha) ==
    Vector3(lerpAxis(p.x, v.x, alpha), lerpAxis(p.y, v.y, alpha), lerpAxis(p.z, v.z, alpha))

\* lookAtPos: the clone of targetPosition with y += 1
lookAtPos(targetPosition) ==
    Vector3(targetPosition.x, DAdd(targetPosition.y, lookAtHeightOffset), targetPosition.z)

\* CameraController.update(targetPosition, targetRotation): the camera afterwards
cameraUpdate(cc, cam, targetPosition, targetRotation) ==
    [cam EXCEPT !.position = (CHOOSE r_ \in {lerp(u_, v_, w_) :
                                      u_ \in {cam.position},
                                      v_ \in {targetCameraPos(cc, targetPosition, targetRotation)},
                                      w_ \in {lerpAlpha}} : TRUE),
                !.lookAt = lookAtPos(targetPosition)]

----------------------------------------------------------------------------
(* Game: updateCamera and the frame callback update *)

\* the game's objects and the calls made so far by the running callback
Game ==
    [tc |-> truckController, truck |-> truck, cc |-> cameraController,
     camera |-> camera, renderer |-> renderer, calls |-> <<>>]

\* this.deltaTime = this.clock.getDelta(); this.truckController.update(this.deltaTime),
\* which calls truck.update and then truck.updateWheels
frameUpdated(g, w) ==
    [g EXCEPT !.tc = w.tc, !.truck = w.truck,
              !.calls = g.calls \o <<"truckController.update", "truck.update",
                                     "truck.updateWheels">>]
frameVehicle(g, deltaTime) ==
    CHOOSE r_ \in {frameUpdated(u_, v_) :
            u_ \in {g},
            v_ \in {update([tc |-> g.tc, truck |-> g.truck], deltaTime)}} : TRUE

\* variant: the camera's offset is subtracted in the controller's own position
\* vector (no clone on the way)
updateCameraV_NoClone(g, cam) ==
    [g EXCEPT !.camera = cam,
              !.tc.position = targetCameraPos(g.cc, getPosition(g.tc), getRotation(g.tc)),
              !.calls = Append(g.calls, "cameraController.update")]

\* Game.updateCamera: cameraController.update(getPosition(), getRotation()); the
\* position handed over is a clone, and update clones it again before changing it
updateCameraV(g, cam) ==
    [g EXCEPT !.camera = cam, !.calls = Append(g.calls, "cameraController.update")]
updateCamera(g) ==
    CHOOSE r_ \in {updateCameraV(u_, v_) :
            u_ \in {g},
            v_ \in {cameraUpdate(g.cc, g.camera, getPosition(g.tc), getRotation(g.tc))}} : TRUE

\* this.environment.update(getPosition()): tree visibility only
frameEnvironment(g) == [g EXCEPT !.calls = Append(g.calls, "environment.update")]

\* this.renderer.render(this.scene, this.camera): the truck and the camera as drawn
frameRender(g) ==
    [g EXCEPT !.renderer = << [truck |-> g.truck, camera |-> g.camera] >>,
              !.calls = Append(g.calls, "renderer.render")]

\* requestAnimationFrame(() => this.update())
frameRequestNext(g) == [g EXCEPT !.calls = Append(g.calls, "requestAnimationFrame")]

frameTail(g) == frameRequestNext(frameRender(frameEnvironment(g)))

\* variant: the camera is updated before the truck controller
gameUpdate_CameraFirst(g, deltaTime) ==
    CHOOSE r_ \in {frameTail(u_) :
            u_ \in {(CHOOSE r_ \in {frameVehicle(u_, v_) :
                             u_ \in {updateCamera(g)},
                             v_ \in {deltaTime}} : TRUE)}} : TRUE

\* Game.update
gameUpdate(g, deltaTime) ==
    CHOOSE r_ \in {frameTail(u_) :
            u_ \in {(CHOOSE r_ \in {updateCamera(u_) :
                             u_ \in {frameVehicle(g, deltaTime)}} : TRUE)}} : TRUE

\* one frame: Game.update as the animation-frame callback
Frame(deltaTime) ==
    \E g \in {gameUpdate(Game, deltaTime)} :
        /\ truckController' = g.tc
        /\ truck' = g.truck
        /\ camera' = g.camera
        /\ renderer' = g.renderer
        /\ last' = Observed("frame", <<deltaTime>>, g.calls)
        /\ UNCHANGED <<cameraController, held, page>>

\* Game.updateCamera called on its own
UpdateCamera ==
    \E g \in {updateCamera(Game)} :
        /\ truckController' = g.tc
        /\ truck' = g.truck
        /\ camera' = g.camera
        /\ last' = Observed("updateCamera", <<>>, g.calls)
        /\ UNCHANGED <<cameraController, renderer, page, held>>

----------------------------------------------------------------------------
(* PerformanceManager *)

\* device.performance_class as the Telegram host may report it; "" stands for
\* every case the first branch is not taken in (no Telegram, no device, no class)
TelegramClasses == {"", "LOW", "AVERAGE", "HIGH", "low", "medium"}

\* navigator.deviceMemory in GB, 0 where the browser does not report it
DeviceMemories == {0, 2, 4, 8}

DevicePixelRatios == {1000000, 3000000}

\* String.prototype.toUpperCase on the class names above
toUpperCase(s) ==
    CASE s = "low" -> "LOW"
      [] s = "medium" -> "MEDIUM"
      [] OTHER -> s

\* the fields the constructor assigns before it detects anything: 'AVERAGE' and {}
UnsetPerformanceManager == [performanceClass |-> "AVERAGE", settings |-> <<>>]

\* detectPerformance: the Telegram class if there is one, else the heuristic
detectPerformance(pm, env) ==
    IF env.telegram # ""
    THEN [pm EXCEPT !.performanceClass = toUpperCase(env.telegram)]
    ELSE LET isMobile == env.isMobile
             memory == IF env.deviceMemory = 0 THEN 4 ELSE env.deviceMemory
         IN  IF isMobile /\ memory <= 2 THEN [pm EXCEPT !.performanceClass = "LOW"]
             ELSE IF isMobile /\ memory <= 4 THEN [pm EXCEPT !.performanceClass = "AVERAGE"]
             ELSE IF ~isMobile \/ memory > 4 THEN [pm EXCEPT !.performanceClass = "HIGH"]
             ELSE pm

\* applySettings: the switch on performanceClass, which has no default branch
applySettings(pm, env) ==
    CASE pm.performanceClass = "LOW" ->
            [pm EXCEPT !.settings =
                [pixelRatio |-> 750000, targetFPS |-> 30, shadows |-> FALSE,
                 antialias |-> FALSE, maxLights |-> 2, particlesEnabled |-> FALSE,
                 postProcessing |-> FALSE, lodDistance |-> 30, maxTreeCount |-> 20,
                 fogEnabled |-> TRUE, fogNear |-> 20, fogFar |-> 50]]
      [] pm.performanceClass = "AVERAGE" ->
            [pm EXCEPT !.settings =
                [pixelRatio |-> 1000000, targetFPS |-> 60, shadows |-> TRUE,
                 antialias |-> TRUE, maxLights |-> 3, particlesEnabled |-> TRUE,
                 postProcessing |-> FALSE, lodDistance |-> 50, maxTreeCount |-> 40,
                 fogEnabled |-> TRUE, fogNear |-> 40, fogFar |-> 100]]
      [] pm.performanceClass = "HIGH" ->
            [pm EXCEPT !.settings =
                [pixelRatio |-> Min(env.devicePixelRatio, 2000000), targetFPS |-> 60,
                 shadows |-> TRUE, antialias |-> TRUE, maxLights |-> 4,
                 particlesEnabled |-> TRUE, postProcessing |-> TRUE, lodDistance |-> 80,
                 maxTreeCount |-> 60, fogEnabled |-> TRUE, fogNear |-> 60, fogFar |-> 150]]
      [] OTHER -> pm

\* new PerformanceManager()
NewPerformanceManager(env) ==
    applySettings(detectPerformance(UnsetPerformanceManager, env), env)

\* Game.init: the steps of the one-time setup, in the order they are made
SetupSteps ==
    <<"setupScene", "setupLights", "setupCamera", "setupRenderer", "Truck",
      "TruckController", "Environment", "setupFog", "createFPSMonitor", "CameraController">>

\* window.Telegram.WebApp as main.js finds it: absent (a plain browser), complete,
\* or partial: an object without the expand method, so that tg.expand() throws
WebApps == {"absent", "complete", "partial"}

\* what the page is loaded into: the host's Telegram object and performance
\* data, and the step of the setup that throws (0: none does)
Environments ==
    {env \in [webApp : WebApps, telegram : TelegramClasses, isMobile : BOOLEAN,
               deviceMemory : DeviceMemories, devicePixelRatio : DevicePixelRatios,
               failsAt : 0..Len(SetupSteps)] :
        env.webApp = "absent" => env.telegram = ""}

\* a desktop browser outside Telegram in which the setup succeeds
DesktopBrowser ==
    [webApp |-> "absent", telegram |-> "", isMobile |-> FALSE, deviceMemory |-> 8,
     devicePixelRatio |-> 1000000, failsAt |-> 0]

\* Game.getPerformanceInfo
getPerformanceInfo(pm) == [class |-> pm.performanceClass, settings |-> pm.settings]

\* the page when main.js is about to be evaluated: no Game constructed or
\* started, nothing written with console.error, the document body as loaded
NewPage ==
    [phase |-> "script", isTelegramApp |-> FALSE, constructions |-> 0, starts |-> 0,
     reports |-> 0, console |-> <<>>, panels |-> 0, keysBound |-> FALSE,
     perfManager |-> UnsetPerformanceManager, perfInfo |-> <<>>]

\* the page after main has constructed and started the game
StartedPage ==
    [phase |-> "running", isTelegramApp |-> FALSE, constructions |-> 1, starts |-> 1,
     reports |-> 0, console |-> <<>>, panels |-> 0, keysBound |-> TRUE,
     perfManager |-> NewPerformanceManager(DesktopBrowser),
     perfInfo |-> getPerformanceInfo(NewPerformanceManager(DesktopBrowser))]

----------------------------------------------------------------------------
(* Reachable starting states: the program driven from construction by a    *)
(* script of held arrow keys, each entry <<keys held, number of updates>>  *)

Pressed(S) == [c \in ControlNames |-> c \in S]

RECURSIVE Drive(_, _)
Drive(w, n) ==
    IF n = 0 THEN w
    ELSE IF n = 1 THEN update(w, 16667)
    ELSE CHOOSE r \in {Drive(v, n - n \div 2) : v \in {Drive(w, n \div 2)}} : TRUE

RECURSIVE Replay(_, _)
Replay(w, script) ==
    IF script = <<>> THEN w
    ELSE CHOOSE r \in
            {Replay(v, Tail(script)) :
                v \in {Drive([w EXCEPT !.tc.controls = Pressed(script[1][1])], script[1][2])}} :
            TRUE

Constructed == [tc |-> NewTruckController, truck |-> NewTruck]

Scripts ==
    { <<>>,
      << <<{"gas"}, 5>>, <<{"brake"}, 1>> >>,
      << <<{"gas"}, 50>>, <<{"gas", "left"}, 19>> >>,
      << <<{"brake"}, 13>>, <<{"brake", "left"}, 29>> >> }

Seeds == {Replay(Constructed, s) : s \in Scripts}

\* the arrow keys that are down when exactly the controls c are active
ArrowsFor(c) == {KeySource(e) : e \in {k \in ArrowKeyEvents : c[keyControl(k)]}}

----------------------------------------------------------------------------
(* Specifications *)

MaxTicks == 2

InitOthers ==
    /\ cameraController = NewCameraController
    /\ camera = NewCamera
    /\ renderer = <<>>
    /\ ticks = 0
    /\ page = StartedPage
    /\ last = Observed("new", <<>>, <<>>)

\* the vehicle: updates, resets and arrow-key events from a reachable starting state
InitVehicle ==
    /\ \E w \in Seeds :
          /\ truckController = w.tc
          /\ truck = w.truck
          /\ held = ArrowsFor(w.tc.controls)
    /\ InitOthers

NextVehicle ==
    \/ /\ ticks < MaxTicks
       /\ \E dt \in FrameDeltas : Update(dt)
       /\ ticks' = ticks + 1
    \/ /\ ticks < MaxTicks
       /\ Reset
       /\ ticks' = ticks + 1
    \/ /\ \E e \in ArrowKeyEvents : KeyDown(e)
       /\ UNCHANGED ticks
    \/ /\ \E e \in ArrowKeyEvents : KeyUp(e)
       /\ UNCHANGED ticks

SpecVehicle == InitVehicle /\ [][NextVehicle]_vars

MaxHeld == 3

\* the input latch: every key, touch and mouse handler of the four controls, and reset
InitInput ==
    /\ truckController = NewTruckController
    /\ truck = NewTruck
    /\ held = {}
    /\ InitOthers

NextInput ==
    \/ /\ \E e \in KeyEvents : KeyDown(e)
       /\ Cardinality(held') <= MaxHeld
       /\ UNCHANGED ticks
    \/ /\ \E e \in KeyEvents : KeyUp(e)
       /\ UNCHANGED ticks
    \/ /\ \E b \in ControlNames : ButtonTouchStart(b)
       /\ Cardinality(held') <= MaxHeld
       /\ UNCHANGED ticks
    \/ /\ \E b \in ControlNames : ButtonTouchEnd(b)
       /\ UNCHANGED ticks
    \/ /\ \E b \in ControlNames : ButtonMouseDown(b)
       /\ Cardinality(held') <= MaxHeld
       /\ UNCHANGED ticks
    \/ /\ \E b \in ControlNames : ButtonMouseUp(b)
       /\ UNCHANGED ticks
    \/ /\ \E b \in ControlNames : ButtonMouseLeave(b)
       /\ UNCHANGED ticks
    \/ /\ Reset
       /\ UNCHANGED ticks

SpecInput == InitInput /\ [][NextInput]_vars

\* the camera gestures: pointer positions in pixels, touch counts, wheel deltas
MouseButtons == {0, 2}
DragPointers == { <<0, 0>>, <<300, 100>>, <<0, 400>> }
TouchCounts == {1, 2, 3}
WheelDeltas == {-3000, -700, -100, 100, 700, 3000}

\* the move events of a run of drags (SpecDrag: ticks counts them)
MaxDragMoves == 2

InitCamera ==
    /\ truckController = NewTruckController
    /\ truck = NewTruck
    /\ held = {}
    /\ InitOthers

\* orbit drags: the mouse and touch listeners of the canvas, and the camera reset
NextDrag ==
    \/ /\ \E b \in MouseButtons, p \in DragPointers : CanvasMouseDown(b, p[1], p[2])
       /\ UNCHANGED ticks
    \/ /\ ticks < MaxDragMoves
       /\ \E p \in DragPointers : CanvasMouseMove(p[1], p[2])
       /\ ticks' = ticks + 1
    \/ /\ \E b \in MouseButtons : WindowMouseUp(b)
       /\ UNCHANGED ticks
    \/ /\ \E n \in TouchCounts, p \in DragPointers : CanvasTouchStart(n, p[1], p[2])
       /\ UNCHANGED ticks
    \/ /\ ticks < MaxDragMoves
       /\ \E n \in TouchCounts, p \in DragPointers : CanvasTouchMove(n, p[1], p[2])
       /\ ticks' = ticks + 1
    \/ /\ \E n \in TouchCounts : CanvasTouchEnd(n)
       /\ UNCHANGED ticks
    \/ /\ CameraReset
       /\ UNCHANGED ticks

SpecDrag == InitCamera /\ [][NextDrag]_vars

\* zoom: the wheel listener of the canvas, after any camera reset
NextZoom ==
    \/ /\ \E dy \in WheelDeltas : CanvasWheel(dy)
       /\ UNCHANGED ticks
    \/ /\ CameraReset
       /\ UNCHANGED ticks

SpecZoom == InitCamera /\ [][NextZoom]_vars

\* the number of coasting updates that take full speed to within a few
\* updates of the value at which the decay comes to rest
LongCoast == 36600

\* coasting: every key released, then update after update
CoastScripts ==
    { << <<{"gas"}, 1>>, <<{}, 0>> >>,
      << <<{"gas"}, 2>>, <<{}, 340>> >>,
      << <<{"gas"}, 50>>, <<{}, 0>> >>,
      << <<{"gas"}, 50>>, <<{}, LongCoast>> >>,
      << <<{"brake"}, 13>>, <<{}, 0>> >>,
      << <<{"gas"}, 1>>, <<{}, 1>>, <<{"gas"}, 1>>, <<{"brake"}, 1>>, <<{}, 0>> >>,
      << <<{"gas"}, 50>>, <<{"gas", "left"}, 19>>, <<{}, 0>> >>,
      << <<{"brake"}, 13>>, <<{"brake", "left"}, 29>>, <<{}, 0>> >> }

MaxCoastTicks == 500

InitCoast ==
    /\ \E s \in CoastScripts :
          \E w \in {Replay(Constructed, s)} :
              /\ truckController = w.tc
              /\ truck = w.truck
    /\ held = {}
    /\ InitOthers

NextCoast ==
    /\ ticks < MaxCoastTicks
    /\ \E dt \in DeltaTimes : Update(dt)
    /\ ticks' = ticks + 1

SpecCoast == InitCoast /\ [][NextCoast]_vars

\* one pedal from rest: ArrowUp or ArrowDown pressed once on the constructed
\* controller and never released, then update after update
PedalKeyEvents == {e \in ArrowKeyEvents : keyControl(e) \in {"gas", "brake"}}

MaxPedalTicks == 60

NextPedal ==
    \/ /\ held = {}
       /\ ticks = 0
       /\ \E e \in PedalKeyEvents : KeyDown(e)
       /\ UNCHANGED ticks
    \/ /\ held # {}
       /\ ticks < MaxPedalTicks
       /\ \E dt \in DeltaTimes : Update(dt)
       /\ ticks' = ticks + 1

SpecPedal == InitInput /\ [][NextPedal]_vars

\* the game: frames, camera updates, resets, key events and camera gestures,
\* from starting states reached by orbit gestures followed by frames of driving
NewGame ==
    [tc |-> NewTruckController, truck |-> NewTruck, cc |-> NewCameraController,
     camera |-> NewCamera, renderer |-> <<>>, calls |-> <<>>]

nextFrame(g) == gameUpdate([g EXCEPT !.calls = <<>>], 16667)

RECURSIVE DriveFrames(_, _)
DriveFrames(g, n) ==
    IF n = 0 THEN g
    ELSE IF n = 1 THEN nextFrame(g)
    ELSE CHOOSE r \in {DriveFrames(v, n - n \div 2) : v \in {DriveFrames(g, n \div 2)}} : TRUE

RECURSIVE ReplayFrames(_, _)
ReplayFrames(g, script) ==
    IF script = <<>> THEN g
    ELSE CHOOSE r \in
            {ReplayFrames(v, Tail(script)) :
                v \in {DriveFrames([g EXCEPT !.tc.controls = Pressed(script[1][1])],
                                   script[1][2])}} :
            TRUE

\* orbit states: in a right-button drag that has moved, up to the steepest
\* angle; zoomed out with a two-finger drag that has moved, down to the
\* flattest angle, and ended
DraggedUp == mousemove(mousedown(NewCameraController, 2, 0, 0), 300, 400)
ZoomedOut ==
    touchend(touchmove(touchstart(wheel(NewCameraController, 3000), 2, 300, 400),
                       2, 0, 0), 0)

\* an orbit state and the keys held over the frames that follow it
GameScripts ==
    { <<NewCameraController, <<>> >>,
      <<ZoomedOut, <<>> >>,
      <<DraggedUp, << <<{"gas"}, 50>>, <<{"gas", "left"}, 19>> >> >>,
      <<ZoomedOut, << <<{"brake"}, 13>>, <<{"brake", "right"}, 29>>, <<{}, 3>> >> >> }

GameSeeds == {ReplayFrames([NewGame EXCEPT !.cc = s[1]], s[2]) : s \in GameScripts}

MaxGameSteps == 2

GamePointers == { <<0, 0>>, <<300, 400>> }

GameWheelDeltas == {-3000, 3000}

InitGame ==
    /\ \E g \in GameSeeds :
          /\ truckController = g.tc
          /\ truck = g.truck
          /\ cameraController = g.cc
          /\ camera = g.camera
          /\ renderer = g.renderer
          /\ held = ArrowsFor(g.tc.controls)
    /\ ticks = 0
    /\ page = StartedPage
    /\ last = Observed("new", <<>>, <<>>)

\* every handler call counts against the bound
Counted == ticks < MaxGameSteps /\ ticks' = ticks + 1

NextGame ==
    \/ Counted /\ \E dt \in FrameDeltas : Frame(dt)
    \/ Counted /\ \E dt \in FrameDeltas : Update(dt)
    \/ Counted /\ UpdateCamera
    \/ Counted /\ Reset
    \/ Counted /\ CameraReset
    \/ Counted /\ \E e \in ArrowKeyEvents : KeyDown(e)
    \/ Counted /\ \E e \in ArrowKeyEvents : KeyUp(e)
    \/ Counted /\ \E b \in MouseButtons, p \in GamePointers : CanvasMouseDown(b, p[1], p[2])
    \/ Counted /\ \E p \in GamePointers : CanvasMouseMove(p[1], p[2])
    \/ Counted /\ \E b \in MouseButtons : WindowMouseUp(b)
    \/ Counted /\ \E n \in TouchCounts, p \in GamePointers : CanvasTouchStart(n, p[1], p[2])
    \/ Counted /\ \E n \in TouchCounts, p \in GamePointers : CanvasTouchMove(n, p[1], p[2])
    \/ Counted /\ \E n \in TouchCounts : CanvasTouchEnd(n)
    \/ Counted /\ \E dy \in GameWheelDeltas : CanvasWheel(dy)

SpecGame == InitGame /\ [][NextGame]_vars

\* missed releases: touches on the gas and left buttons that start, end or are
\* lost without a touchend, and updates in between
StuckButtons == {"gas", "left"}

MaxStuckTicks == 4

NextStuck ==
    \/ /\ \E b \in StuckButtons : ButtonTouchStart(b)
       /\ UNCHANGED ticks
    \/ /\ \E b \in StuckButtons : ButtonTouchLost(b)
       /\ UNCHANGED ticks
    \/ /\ \E b \in StuckButtons : ButtonTouchEnd(b)
       /\ UNCHANGED ticks
    \/ /\ ticks < MaxStuckTicks
       /\ \E dt \in FrameDeltas : Update(dt)
       /\ ticks' = ticks + 1

SpecStuck == InitInput /\ [][NextStuck]_vars

\* the camera chasing the truck: frame after frame with the keys as they are, from
\* the starting states of the game and from those states after a vehicle reset
ChaseSeeds == GameSeeds \cup {[g EXCEPT !.tc = resetController(g.tc)] : g \in GameSeeds}

\* frames enough for the camera to come to rest behind a standing truck
MaxChaseTicks == 350

InitChase ==
    /\ \E g \in ChaseSeeds :
          /\ truckController = g.tc
          /\ truck = g.truck
          /\ cameraController = g.cc
          /\ camera = g.camera
          /\ renderer = g.renderer
          /\ held = ArrowsFor(g.tc.controls)
    /\ ticks = 0
    /\ page = StartedPage
    /\ last = Observed("new", <<>>, <<>>)

NextChase ==
    /\ ticks < MaxChaseTicks
    /\ \E dt \in FrameDeltas : Frame(dt)
    /\ ticks' = ticks + 1

SpecChase == InitChase /\ [][NextChase]_vars

----------------------------------------------------------------------------
(* main.js *)

\* initTelegramWebApp: whether tg.expand() throws, and what it returns if not
telegramThrows(env) == env.webApp = "partial"
initTelegramWebApp(env) == env.webApp = "complete"

\* the step whose completion has bound the key listeners to window
KeysBoundBy == 6

\* the steps of the setup made inside createGameObjects
InCreateGameObjects == {"Truck", "TruckController", "Environment"}

\* console.error in the catch blocks of createGameObjects and of init, each of
\* which throws the error on: the entries a setup that throws at step leaves
setupErrors(step) ==
    IF step = 0 THEN <<>>
    ELSE (IF SetupSteps[step] \in InCreateGameObjects THEN <<"Game.createGameObjects">>
          ELSE <<>>) \o <<"Game.init">>

\* new Game(): the PerformanceManager, then init() as far as the step that throws
construct(p, env) ==
    [p EXCEPT !.constructions = @ + 1,
              !.perfManager = NewPerformanceManager(env),
              !.keysBound = env.failsAt = 0 \/ env.failsAt > KeysBoundBy,
              !.console = @ \o setupErrors(env.failsAt)]

\* the catch block of main: console.error of the error and of its stack, and
\* the error panel put in place of the document body
report(p) ==
    [p EXCEPT !.phase = "failed", !.reports = @ + 1,
              !.console = @ \o <<"main", "main">>, !.panels = @ + 1]

\* const perfInfo = game.getPerformanceInfo(), which main logs
inform(p) == [p EXCEPT !.perfInfo = getPerformanceInfo(p.perfManager)]

\* game.start(), which runs the first Game.update
start(w, deltaTime) ==
    [page |-> [w.page EXCEPT !.phase = "running", !.starts = @ + 1],
     game |-> gameUpdate(w.game, deltaTime)]

\* main from the try statement on:
\* try { new Game(); getPerformanceInfo(); game.start() } catch { report }
launch(w, env, deltaTime) ==
    LET built == construct(w.page, env)
    IN  IF env.failsAt # 0
        THEN [page |-> report(built), game |-> w.game]
        ELSE start([page |-> inform(built), game |-> w.game], deltaTime)

\* variant: the loop is started before the error is reported
main_StartsAnyway(w, env, deltaTime) ==
    LET greeted == [w EXCEPT !.page.isTelegramApp = initTelegramWebApp(env)]
        built == construct(greeted.page, env)
        started == start([page |-> inform(built), game |-> w.game], deltaTime)
    IN  IF telegramThrows(env) THEN [w EXCEPT !.page.phase = "aborted"]
        ELSE IF env.failsAt # 0
        THEN [started EXCEPT !.page = report(started.page)]
        ELSE started

\* main: initTelegramWebApp() ahead of the try statement, where an exception
\* leaves main with nothing constructed and nothing reported; then the try
main(w, env, deltaTime) ==
    IF telegramThrows(env) THEN [w EXCEPT !.page.phase = "aborted"]
    ELSE launch([w EXCEPT !.page.isTelegramApp = initTelegramWebApp(env)], env, deltaTime)

\* a call of main, on the objects the constructor builds
CallMain(env, deltaTime) ==
    \E r \in {main([page |-> page, game |-> Game], env, deltaTime)} :
        /\ page' = r.page
        /\ truckController' = r.game.tc
        /\ truck' = r.game.truck
        /\ cameraController' = r.game.cc
        /\ camera' = r.game.camera
        /\ renderer' = r.game.renderer
        /\ last' = Observed("main", <<deltaTime>>, r.game.calls)
        /\ UNCHANGED held

\* the last statement of main.js: main is called at once, or on DOMContentLoaded
\* if the document is still loading
Script(readyState, env, deltaTime) ==
    /\ page.phase = "script"
    /\ IF readyState = "loading"
       THEN /\ page' = [page EXCEPT !.phase = "waiting"]
            /\ UNCHANGED <<truckController, truck, cameraController, camera, renderer,
                           held, last>>
       ELSE CallMain(env, deltaTime)

\* the DOMContentLoaded event, which a document fires once
DOMContentLoaded(env, deltaTime) ==
    /\ page.phase = "waiting"
    /\ CallMain(env, deltaTime)

MaxPageFrames == 1

InitPage ==
    /\ page = NewPage
    /\ truckController = NewTruckController
    /\ truck = NewTruck
    /\ cameraController = NewCameraController
    /\ camera = NewCamera
    /\ renderer = <<>>
    /\ held = {}
    /\ ticks = 0
    /\ last = Observed("new", <<>>, <<>>)

\* the page from the evaluation of main.js on: frames run while one has been
\* requested, key events reach the controller once its listeners are bound
NextPage ==
    \/ /\ \E rs \in {"loading", "complete"}, env \in Environments, dt \in FrameDeltas :
             Script(rs, env, dt)
       /\ UNCHANGED ticks
    \/ /\ \E env \in Environments, dt \in FrameDeltas : DOMContentLoaded(env, dt)
       /\ UNCHANGED ticks
    \/ /\ page.starts > 0
       /\ ticks < MaxPageFrames
       /\ \E dt \in FrameDeltas : Frame(dt)
       /\ ticks' = ticks + 1
    \/ /\ page.keysBound
       /\ \E e \in ArrowKeyEvents : KeyDown(e)
       /\ UNCHANGED ticks
    \/ /\ page.keysBound
       /\ \E e \in ArrowKeyEvents : KeyUp(e)
       /\ UNCHANGED ticks

SpecPage == InitPage /\ [][NextPage]_vars

----------------------------------------------------------------------------
(* Properties of the vehicle *)

\* the doubles that decimal literals denote
d0_0001 == DoubleOf(100)
d0_01 == DoubleOf(10000)
d0_02 == DoubleOf(20000)
d0_03 == DoubleOf(30000)
d0_1 == DoubleOf(100000)
d0_25 == DoubleOf(250000)
d0_3 == DoubleOf(300000)
d0_5 == DoubleOf(500000)
d0_98 == DoubleOf(980000)
d1 == DOfInt(1)
d3 == DOfInt(3)
d5 == DOfInt(5)
d15 == DOfInt(15)
d30 == DOfInt(30)

\* 2^k as a double
PowerOfTwo(k) == [s |-> 1, e |-> k - (MantissaBits - 1), m |-> <<0, 0, 0, 1024>>]

\* a few last places of a heading: 2^-50, below 10^-15
HeadingRounding == PowerOfTwo(-50)

\* |x - y|
DGap(x, y) == DAbs(DSub(x, y))

\* the controls, speed and heading the last update started from
Updated == last.op = "update"
ControlsThen == last.tc.controls
ExactlyOneSteer(c) == c["left"] # c["right"]
BothSteer(c) == c["left"] /\ c["right"]

\* C1: after any sequence of updates, resets and control events the speed is
\* in [-0.25, 0.5]
C1_SpeedInRange ==
    /\ DAtMost(DNeg(d0_25), truckController.speed)
    /\ DAtMost(truckController.speed, d0_5)

\* C1 witness: a braking update that would have gone below -0.25 and was clamped
C1_Witness ==
    /\ Updated
    /\ ControlsThen["brake"] /\ ~ControlsThen["gas"]
    /\ DLess(DSub(last.tc.speed, d0_02), DNeg(d0_25))
    /\ truckController.speed = DNeg(d0_25)

\* C2: after every update and after reset, position.x is in [-3, 3]
C2_LaneInvariant ==
    /\ DAtMost(DNeg(d3), truckController.position.x)
    /\ DAtMost(truckController.position.x, d3)

\* C2 witness: an update whose integration step crossed the right road edge
C2_Witness ==
    /\ Updated
    /\ DLess(d3, DAdd(last.tc.position.x, truckController.velocity.x))
    /\ truckController.position.x = d3

BrakeOnly(c) == c["brake"] /\ ~c["gas"]

\* the heading change of an update entered at speed 0 with brake and one steer
\* control: 0.03 * 0.02 / 0.5, about 0.0012
BrakeTurn == DDiv(DMul(d0_03, d0_02), d0_5)

TurnOf(speed) == DDiv(DMul(d0_03, DAbs(speed)), d0_5)

\* C8: with exactly one steer control active and |speed| > 0.01 (the speed the
\* steering step sees), left changes the heading by +0.03*|speed|/0.5 forward and
\* by -0.03*|speed|/0.5 in reverse, right by the opposite: the same magnitude for
\* the same |speed|, the opposite sign
C8_ReverseSteeringNegates ==
    (Updated /\ ExactlyOneSteer(ControlsThen) /\ DLess(d0_01, DAbs(truckController.speed))) =>
        truckController.rotation =
            IF ControlsThen["left"] <=> DLess(DZero, truckController.speed)
            THEN DAdd(last.tc.rotation, TurnOf(truckController.speed))
            ELSE DSub(last.tc.rotation, TurnOf(truckController.speed))

\* C8 witness: steering left in reverse has turned the heading down
C8_Witness ==
    /\ Updated
    /\ ControlsThen["left"] /\ ~ControlsThen["right"]
    /\ DLess(truckController.speed, DNeg(d0_01))
    /\ DLess(truckController.rotation, last.tc.rotation)

\* C9 (as claimed): with left and right both active the update's net heading
\* change is 0
C9_BothSteerCancel ==
    (Updated /\ BothSteer(ControlsThen)) =>
        truckController.rotation = last.tc.rotation

----------------------------------------------------------------------------
(* Properties of the input latch *)

\* C3 (as claimed): each control flag is true iff one of its bound sources (its
\* keys, a touch or the mouse on its button) is currently active
C3_IntentIffSourceActive ==
    \A c \in ControlNames :
        truckController.controls[c] <=> (BoundSources(c) \cap held # {})

----------------------------------------------------------------------------
(* Properties of the camera *)

\* C4: after any sequence of mouse drags, two-finger drags and camera resets,
\* angleV is in [0.1, PI/3]
C4_AngleVInRange ==
    /\ DAtMost(d0_1, cameraController.angleV)
    /\ DAtMost(cameraController.angleV, DOver(PI, 3))

\* C4 witness: a two-finger drag whose delta would have taken angleV below 0.1
C4_Witness ==
    /\ last.op = "canvas.touchmove"
    /\ last.cc.isTouchRotating /\ last.arg[1] = 2
    /\ DLess(DAdd(last.cc.angleV,
                  DMul(DOfInt(last.arg[3] - last.cc.touchStartY), DoubleOf(3000))),
             d0_1)
    /\ cameraController.angleV = d0_1

\* C5: after any sequence of wheel events the distance is in [5, 30]; it starts at 15
C5_DistanceInRange ==
    /\ DAtMost(d5, cameraController.distance)
    /\ DAtMost(cameraController.distance, d30)
    /\ last.op = "new" => cameraController.distance = d15

\* C5 witness: a wheel event whose delta would have taken the distance beyond 30
C5_Witness ==
    /\ last.op = "canvas.wheel"
    /\ DLess(d30, DAdd(last.cc.distance, DMul(DOfInt(last.arg[1]), d0_01)))
    /\ cameraController.distance = d30

----------------------------------------------------------------------------
(* Properties of coasting *)

NoneActive(c) == \A n \in ControlNames : ~c[n]

Coasted == Updated /\ NoneActive(ControlsThen)

\* the claim's monotone part: a coasting update multiplies the speed by 0.98
\* (the double product), |speed| does not grow and the sign does not flip
CoastStep ==
    Coasted =>
        /\ truckController.speed = DMul(last.tc.speed, d0_98)
        /\ DAtMost(DAbs(truckController.speed), DAbs(last.tc.speed))
        /\ DAtMost(DZero, last.tc.speed) => DAtMost(DZero, truckController.speed)
        /\ DAtMost(last.tc.speed, DZero) => DAtMost(truckController.speed, DZero)

\* C10 (as claimed): coasting multiplies the speed by 0.98 per update, |speed|
\* does not grow, the sign does not flip, and the speed is driven to 0: the
\* value at which the decay comes to rest (an update that leaves the speed as
\* it was) is 0
C10_CoastReachesZero ==
    /\ CoastStep
    /\ (Coasted /\ truckController.speed = last.tc.speed) => truckController.speed = DZero

\* C10 (amended): coasting multiplies the speed by 0.98 per update, |speed| does
\* not grow and the sign does not flip; the speed approaches 0 (after 500
\* coasting updates |speed| is at most 0.0001) but a nonzero speed never becomes 0
C10_CoastApproachesZero ==
    /\ CoastStep
    /\ (Coasted /\ last.tc.speed # DZero) => truckController.speed # DZero
    /\ ticks >= 500 => DAtMost(DAbs(truckController.speed), d0_0001)

\* C10 witness: coasting after full speed has brought the speed to rest at a
\* nonzero value, the subnormal 24 * 2^-1074, where 0.98 times the speed rounds
\* back to the speed
C10_Witness ==
    /\ Coasted
    /\ ticks >= 500
    /\ DLess(DoubleOf(12750000), truckController.position.z)
    /\ DLess(DZero, truckController.speed)
    /\ DAtMost(truckController.speed, d0_0001)
    /\ truckController.speed = last.tc.speed
    /\ truckController.speed = [s |-> 1, e |-> MinExponent, m |-> <<24, 0, 0, 0>>]

----------------------------------------------------------------------------
(* Properties of a pedal held from rest (SpecPedal: ticks counts the updates) *)

GasHeld == held = {KeySource(e) : e \in {k \in ArrowKeyEvents : keyControl(k) = "gas"}}
BrakeHeld == held = {KeySource(e) : e \in {k \in ArrowKeyEvents : keyControl(k) = "brake"}}

\* C11: from rest with only gas held, the speed after n updates is
\* min(0.01 n, 0.5) (to the nearest millionth: the sum of n doubles 0.01 is
\* within 3e-16 of 0.01 n): below 0.5 before update 50, exactly 0.5 from update
\* 50 on
C11_GasRamp ==
    GasHeld =>
        /\ Micro(truckController.speed) = Min(10000 * ticks, 500000)
        /\ ticks < 50 => DLess(truckController.speed, d0_5)
        /\ ticks >= 50 => truckController.speed = d0_5

\* C11 witness: update 50 under gas brought the speed from 0.49 to exactly 0.5,
\* and a later update under gas has kept it there
C11_Witness ==
    /\ GasHeld
    /\ Updated
    /\ ticks > 50
    /\ last.tc.speed = d0_5
    /\ truckController.speed = d0_5
    /\ DLess(DoubleOf(13000000), truckController.position.z)

\* C12: from rest with only brake held, the speed does not increase, is
\* max(-0.02 n, -0.25) after n updates (to the nearest millionth) and is never
\* below -0.25
C12_BrakeRamp ==
    BrakeHeld =>
        /\ Micro(truckController.speed) = Max(-20000 * ticks, -250000)
        /\ DAtMost(DNeg(d0_25), truckController.speed)
        /\ Updated => DAtMost(truckController.speed, last.tc.speed)

\* C12 witness: update 13 under brake would have reached -0.26 and was held at
\* -0.25, and later updates under brake have kept it there
C12_Witness ==
    /\ BrakeHeld
    /\ Updated
    /\ ticks >= 20
    /\ last.tc.speed = DNeg(d0_25)
    /\ truckController.speed = DNeg(d0_25)

\* C6 (as claimed): update(0) leaves position, heading and speed as they were
\* (the clock of SpecPedal hands out 0 as well as a sixtieth of a second)
C6_ZeroDtIsNoOp ==
    (Updated /\ last.arg[1] = 0) =>
        /\ truckController.position = last.tc.position
        /\ truckController.rotation = last.tc.rotation
        /\ truckController.speed = last.tc.speed

----------------------------------------------------------------------------
(* Properties of reset *)

\* position, heading, speed and velocity of a controller
VehicleState(tc) ==
    [position |-> tc.position, rotation |-> tc.rotation,
     speed |-> tc.speed, velocity |-> tc.velocity]

\* C13: reset, with no update after it, leaves position (0,0,0), heading 0,
\* speed 0 and velocity 0: the state of a freshly constructed controller
C13_ResetRestoresInitial ==
    last.op = "reset" =>
        /\ truckController.position = Vector3(DZero, DZero, DZero)
        /\ truckController.rotation = DZero
        /\ truckController.speed = DZero
        /\ truckController.velocity = Vector3(DZero, DZero, DZero)
        /\ VehicleState(truckController) = VehicleState(NewTruckController)

\* C13 witness: reset was called on a truck that was moving, turned and away
\* from the origin
C13_Witness ==
    /\ last.op = "reset"
    /\ last.tc.speed # DZero
    /\ last.tc.rotation # DZero
    /\ last.tc.position.x # DZero
    /\ last.tc.velocity.z # DZero
    /\ truckController.position = Vector3(DZero, DZero, DZero)

----------------------------------------------------------------------------
(* Properties of the camera rig and the frame (SpecGame) *)

CameraMoved == last.op \in {"frame", "updateCamera"}

\* the target of the camera for the orbit state as it is now and a vehicle
TargetOf(tc) == targetCameraPos(cameraController, getPosition(tc), getRotation(tc))
TargetNow == TargetOf(truckController)

\* what the rounding of the sum and the product of a camera step can come to
\* for coordinates below 2^12: 2^-40, below 10^-12
StepRounding == PowerOfTwo(-40)

\* the step from old to new is a tenth of the gap from old to the target, up to
\* the rounding of the doubles
TenthCloser(old, new, target) ==
    DAtMost(DGap(DSub(new, old), DMul(DSub(target, old), d0_1)), StepRounding)

\* the camera has gone a tenth of the way from where it was to the target
CameraTenthCloser(target) ==
    /\ TenthCloser(last.cam.position.x, camera.position.x, target.x)
    /\ TenthCloser(last.cam.position.y, camera.position.y, target.y)
    /\ TenthCloser(last.cam.position.z, camera.position.z, target.z)

\* the camera has not landed on the target on an axis where it was away from it
CameraShortOf(target) ==
    /\ last.cam.position.x # target.x => camera.position.x # target.x
    /\ last.cam.position.y # target.y => camera.position.y # target.y
    /\ last.cam.position.z # target.z => camera.position.z # target.z

\* C14: camera reset sets angleH to 0 and angleV to 0.3 and leaves the camera's
\* position and the distance as they were; the position changes only in camera
\* updates, each taking 1/10 of the gap to the target and never the whole gap
C14_ResetKeepsCameraPlace ==
    /\ last.op = "camera.reset" =>
          /\ cameraController.angleH = DZero
          /\ cameraController.angleV = d0_3
          /\ cameraController.distance = last.cc.distance
          /\ camera.position = last.cam.position
    /\ ~CameraMoved => camera.position = last.cam.position
    /\ CameraMoved =>
          /\ (CHOOSE r_ \in {CameraTenthCloser(u_) : u_ \in {TargetNow}} : TRUE)
          /\ (CHOOSE r_ \in {CameraShortOf(u_) : u_ \in {TargetNow}} : TRUE)

\* C14 witness: reset of an orbit that was dragged and zoomed out; the angles are
\* back at their defaults, the distance is still 30 and the camera is where it
\* was, more than a unit away from its new target
C14_Witness ==
    /\ last.op = "camera.reset"
    /\ last.cc.angleH # DZero
    /\ last.cc.angleV # d0_3
    /\ cameraController.distance = d30
    /\ camera.position = last.cam.position
    /\ DLess(d1, DGap(TargetNow.x, camera.position.x))

Framed == last.op = "frame"

\* the calls of one frame that the order is about, in the order they were made
FrameOrder ==
    SelectSeq(last.calls,
              LAMBDA c : c \in {"truckController.update", "truck.update", "truck.updateWheels",
                                "cameraController.update", "renderer.render"})

\* the camera target computed from the vehicle as it was before the frame
TargetBefore == TargetOf(last.tc)

\* C15: a frame runs exactly one vehicle update (truck transform written, then the
\* wheels spun), then one camera update, then one render, as one uninterrupted
\* step; the camera update works on the position and heading that the vehicle
\* update of the same frame produced
C15_FramePipeline ==
    Framed =>
        /\ FrameOrder = <<"truckController.update", "truck.update", "truck.updateWheels",
                          "cameraController.update", "renderer.render">>
        /\ VehicleState(truckController) =
              VehicleState(updateController(last.tc, last.arg[1]))
        /\ truck.position = truckController.position
        /\ truck.rotationY = truckController.rotation
        /\ (CHOOSE r_ \in {CameraTenthCloser(u_) : u_ \in {TargetNow}} : TRUE)
        /\ camera.lookAt = Vector3(truckController.position.x,
                                   DAdd(truckController.position.y, d1),
                                   truckController.position.z)
        /\ renderer = << [truck |-> truck, camera |-> camera] >>

\* C15 witness: a frame in which the truck moved and turned, so that the camera
\* target of this frame differs from the one the previous transform would give,
\* and the camera went toward this frame's target
C15_Witness ==
    /\ Framed
    /\ truckController.position.x # last.tc.position.x
    /\ truckController.rotation # last.tc.rotation
    /\ TargetBefore.x # TargetNow.x
    /\ ~TenthCloser(last.cam.position.x, camera.position.x, TargetBefore.x)
    /\ TenthCloser(last.cam.position.x, camera.position.x, TargetNow.x)
    /\ renderer # <<>>

\* C16: position, heading, speed (and velocity) of the vehicle change only in the
\* vehicle controller's update, alone or in a frame, and in its reset: not in a
\* camera update, a camera gesture or a key event
C16_VehicleOwnership ==
    [][ VehicleState(truckController') # VehicleState(truckController) =>
            \/ \E dt \in FrameDeltas : Frame(dt) \/ Update(dt)
            \/ Reset ]_vars

\* C16 witness: a camera update on its own moved the camera behind a moving,
\* turned truck and left the truck's position, heading and speed as they were
C16_Witness ==
    /\ last.op = "updateCamera"
    /\ camera.position # last.cam.position
    /\ truckController.speed # DZero
    /\ truckController.rotation # DZero
    /\ VehicleState(truckController) = VehicleState(last.tc)

\* angleH, angleV and distance of the camera controller
OrbitState(cc) == [angleH |-> cc.angleH, angleV |-> cc.angleV, distance |-> cc.distance]

\* C17: angleH, angleV and distance change only in a mouse drag, a two-finger
\* drag, a wheel event or a camera reset: not in a vehicle update or reset, a
\* frame, a key event or a camera update
C17_OrbitOwnership ==
    [][ OrbitState(cameraController') # OrbitState(cameraController) =>
            \/ \E p \in GamePointers : CanvasMouseMove(p[1], p[2])
            \/ \E n \in TouchCounts, p \in GamePointers : CanvasTouchMove(n, p[1], p[2])
            \/ \E dy \in GameWheelDeltas : CanvasWheel(dy)
            \/ CameraReset ]_vars

\* C17 witness: a frame moved and turned the truck and the camera while the
\* orbit, dragged and zoomed away from its defaults, stayed as it was
C17_Witness ==
    /\ Framed
    /\ truckController.position # last.tc.position
    /\ truckController.rotation # last.tc.rotation
    /\ camera.position # last.cam.position
    /\ cameraController.angleH # DZero
    /\ cameraController.distance # d15
    /\ OrbitState(cameraController) = OrbitState(last.cc)

----------------------------------------------------------------------------
(* Properties of the input flags under updates (SpecStuck) *)

\* C18: an update leaves every control flag as it was; a flag set by a press whose
\* release event never came stays set update after update
C18_UpdateKeepsIntents ==
    [][ (\E dt \in FrameDeltas : Update(dt)) =>
            \A c \in ControlNames :
                truckController'.controls[c] = truckController.controls[c] ]_vars

\* C18 witness: gas was pressed by touch and the touch was lost without a
\* touchend; four updates later the flag is still set and the truck has sped up
C18_Witness ==
    /\ Updated
    /\ ticks >= 4
    /\ TouchSource("gas") \notin held
    /\ truckController.controls["gas"]
    /\ ControlsThen["gas"]
    /\ Micro(truckController.speed) >= 40000

----------------------------------------------------------------------------
(* Properties of the drag sessions (SpecDrag) *)

\* C19: a mousemove outside a mouse drag session, and a touchmove outside a touch
\* drag session or with a touch count other than 2, leave angleH, angleV and
\* distance as they were; a mouse session begins only with a right-button
\* mousedown and ends only with a right-button mouseup, a touch session begins
\* only with a two-finger touchstart and ends only with a touchend that leaves
\* fewer than two touches
C19_StrayMovesIgnored ==
    /\ (last.op = "canvas.mousemove" /\ ~last.cc.isRotating) =>
          OrbitState(cameraController) = OrbitState(last.cc)
    /\ (last.op = "canvas.touchmove" /\ (~last.cc.isTouchRotating \/ last.arg[1] # 2)) =>
          OrbitState(cameraController) = OrbitState(last.cc)
    /\ (cameraController.isRotating /\ ~last.cc.isRotating) =>
          (last.op = "canvas.mousedown" /\ last.arg[1] = 2)
    /\ (~cameraController.isRotating /\ last.cc.isRotating) =>
          (last.op = "window.mouseup" /\ last.arg[1] = 2)
    /\ (cameraController.isTouchRotating /\ ~last.cc.isTouchRotating) =>
          (last.op = "canvas.touchstart" /\ last.arg[1] = 2)
    /\ (~cameraController.isTouchRotating /\ last.cc.isTouchRotating) =>
          (last.op = "canvas.touchend" /\ last.arg[1] < 2)
    /\ (last.op = "window.mouseup" /\ last.arg[1] = 2) => ~cameraController.isRotating
    /\ (last.op = "canvas.touchend" /\ last.arg[1] < 2) => ~cameraController.isTouchRotating

\* C19 witness: a touchmove with three touches, away from where the session
\* started, during a touch drag session that had already turned the camera: the
\* orbit is as it was
C19_Witness ==
    /\ last.op = "canvas.touchmove"
    /\ last.cc.isTouchRotating
    /\ last.arg[1] = 3
    /\ last.arg[2] # last.cc.touchStartX
    /\ last.arg[3] # last.cc.touchStartY
    /\ last.cc.angleH # DZero
    /\ OrbitState(cameraController) = OrbitState(last.cc)

----------------------------------------------------------------------------
(* Properties of the camera smoothing (SpecChase: ticks counts the frames) *)

\* new lies between old and target, both included
Between(old, new, target) ==
    \/ DAtMost(old, new) /\ DAtMost(new, target)
    \/ DAtMost(target, new) /\ DAtMost(new, old)

\* the truck stands with no key held: the camera target is the same in every frame
Parked == truckController.speed = DZero /\ truckController.controls = NoControls

\* the frames after which the camera of a standing truck, at most 64 units from
\* its target to begin with, is within 2^-40 of it
SettledBy == 320

\* the gap at which the camera of a standing truck can come to rest: a few
\* last places of its coordinates, 2^-45 (below 3 * 10^-14)
RestRounding == PowerOfTwo(-45)

\* the camera after a frame, against the target of the frame and the target
\* computed from the vehicle as it was before the frame: no coordinate beyond
\* the target, the step a tenth of the gap, and with an unchanged target no
\* gap grown and the gap along the road shrunk while it is above the rounding
SteppedTowards(target, before) ==
    /\ Between(last.cam.position.x, camera.position.x, target.x)
    /\ Between(last.cam.position.y, camera.position.y, target.y)
    /\ Between(last.cam.position.z, camera.position.z, target.z)
    /\ TenthCloser(last.cam.position.x, camera.position.x, target.x)
    /\ TenthCloser(last.cam.position.y, camera.position.y, target.y)
    /\ TenthCloser(last.cam.position.z, camera.position.z, target.z)
    /\ before = target =>
          /\ DAtMost(DGap(target.x, camera.position.x), DGap(target.x, last.cam.position.x))
          /\ DAtMost(DGap(target.y, camera.position.y), DGap(target.y, last.cam.position.y))
          /\ DAtMost(DGap(target.z, camera.position.z), DGap(target.z, last.cam.position.z))
          /\ DLess(RestRounding, DGap(target.z, last.cam.position.z)) =>
                DLess(DGap(target.z, camera.position.z), DGap(target.z, last.cam.position.z))

\* the camera is within gap of the target on every axis
CameraWithin(target, gap) ==
    /\ DAtMost(DGap(target.x, camera.position.x), gap)
    /\ DAtMost(DGap(target.y, camera.position.y), gap)
    /\ DAtMost(DGap(target.z, camera.position.z), gap)

\* the frame left the camera where it was
CameraAtRest == Framed /\ camera.position = last.cam.position

----------------------------------------------------------------------------
(* Properties of the wheel spin (SpecPedal: ticks counts the updates) *)

\* the speed after the k-th update with one pedal held from rest (C11, C12),
\* in millionths
PedalSpeed(k) == IF GasHeld THEN Min(10000 * k, 500000) ELSE Max(-20000 * k, -250000)

RECURSIVE SumOfSpeeds(_)
SumOfSpeeds(n) == IF n = 0 THEN 0 ELSE SumOfSpeeds(n - 1) + PedalSpeed(n)

\* C21: an update turns each of the four wheels by 2.0 times the speed the update
\* left (the sum of the speed and itself, to the nearest millionth), unclamped;
\* after n updates the four wheels have the same accumulated angle, 2.0 times
\* the sum of the n speeds
C21_WheelSpin ==
    /\ Updated =>
          \A i \in 1..4 :
              truck.wheels[i] - last.tr.wheels[i]
                  = Micro(DAdd(truckController.speed, truckController.speed))
    /\ \A i \in 1..4 : truck.wheels[i] = truck.wheels[1]
    /\ held # {} => truck.wheels[1] = 2 * SumOfSpeeds(ticks)

\* C21 witness: after 60 updates under gas the wheels have turned by 35.5 radians,
\* more than five full turns, the last update adding 1.0 to each
C21_Witness ==
    /\ GasHeld
    /\ Updated
    /\ ticks = 60
    /\ truck.wheels[4] = 35500000
    /\ truck.wheels[4] - last.tr.wheels[4] = 1000000
    /\ truck.wheels[4] > Micro(DMul(DOfInt(10), PI))

----------------------------------------------------------------------------
(* Properties of one update's longitudinal and steering steps (SpecVehicle) *)

\* the range the speed is clamped to at the end of the longitudinal step
Limited(speed) ==
    IF DLess(speed, DNeg(d0_25)) THEN DNeg(d0_25)
    ELSE IF DLess(d0_5, speed) THEN d0_5
    ELSE speed

\* C23: an update with gas and brake both active adds 0.01 to the speed before
\* the clamp and subtracts nothing; with brake alone it subtracts 0.02; the speed
\* is multiplied by 0.98 on the updates where neither is active, and on no other
C23_GasWinsOverBrake ==
    Updated =>
        /\ ControlsThen["gas"] =>
              truckController.speed = Limited(DAdd(last.tc.speed, d0_01))
        /\ (ControlsThen["brake"] /\ ~ControlsThen["gas"]) =>
              truckController.speed = Limited(DSub(last.tc.speed, d0_02))
        /\ (~ControlsThen["brake"] /\ ~ControlsThen["gas"]) =>
              truckController.speed = Limited(DMul(last.tc.speed, d0_98))

\* C23 witness: an update entered at 0.3 or more with gas and brake both active
\* has added 0.01 below the cap, where braking or friction would have taken speed off
C23_Witness ==
    /\ Updated
    /\ ControlsThen["gas"] /\ ControlsThen["brake"]
    /\ DAtMost(d0_3, last.tc.speed)
    /\ truckController.speed = DAdd(last.tc.speed, d0_01)
    /\ DLess(truckController.speed, d0_5)

\* the heading change of the last update, as the difference of the doubles
Turned == DSub(truckController.rotation, last.tc.rotation)

----------------------------------------------------------------------------
(* Properties of the rendered frame (SpecGame) *)

\* the truck mesh as the last renderer.render call drew it
Rendered == renderer[Len(renderer)].truck

\* C25: in every rendered frame the truck mesh root has the controller's position
\* and its y-rotation is the controller's heading, whatever updates, input events
\* and resets came before, the first frame after a reset included
C25_RenderedMeshFollowsController ==
    Framed =>
        /\ Len(renderer) > 0
        /\ Rendered.position = truckController.position
        /\ Rendered.rotationY = truckController.rotation
        /\ Rendered = truck

\* C25 witness: a frame entered right after a reset, the mesh still where the
\* truck had been driven and turned to, is rendered with the mesh at the
\* controller's place and heading
C25_Witness ==
    /\ Framed
    /\ last.tc = resetController(last.tc)
    /\ last.tr.position.z # DZero
    /\ last.tr.rotationY # DZero
    /\ Rendered.position = truckController.position
    /\ Rendered.position = Vector3(DZero, DZero, DZero)
    /\ Rendered.rotationY = DZero

----------------------------------------------------------------------------
(* Properties of the start-up (SpecPage) *)

Failed == page.phase = "failed"

\* the entries console.error has written when main has caught the error of a
\* setup: those of the catch blocks the error passed on its way (init, and
\* before it createGameObjects for a step made there), then main's two
ErrorTrails ==
    { <<"Game.init", "main", "main">>,
      <<"Game.createGameObjects", "Game.init", "main", "main">> }

\* C22: when the construction of the Game throws, main reports the error once
\* (its catch block runs once: the error and its stack go to the console, after
\* the entries of the catch blocks inside the Game that threw it on, and one
\* error panel replaces the page) and does not call start(), so no frame update
\* runs from then on: nothing is rendered, the vehicle, the truck mesh and the
\* camera stay as constructed; and the Game is not constructed a second time.
\* (A main that stops before its try statement, in initTelegramWebApp, has
\* constructed nothing, reported nothing and started nothing.)
C22_FailedSetupIsFinal ==
    /\ Failed =>
          /\ page.reports = 1
          /\ page.panels = 1
          /\ page.console \in ErrorTrails
          /\ page.starts = 0
          /\ page.constructions = 1
          /\ page.perfInfo = <<>>
          /\ renderer = <<>>
          /\ last.op = "main" /\ last.calls = <<>>
          /\ VehicleState(truckController) = VehicleState(NewTruckController)
          /\ truck = NewTruck
          /\ camera = NewCamera
    /\ page.phase = "aborted" =>
          /\ page.constructions = 0
          /\ page.reports = 0
          /\ page.panels = 0
          /\ page.console = <<>>
          /\ page.starts = 0
          /\ ~page.keysBound
          /\ renderer = <<>>

\* C22 witness: the setup has thrown in createGameObjects after the key
\* listeners were bound, gas has been pressed since, and the truck has not
\* moved: one report, one panel, no start, no frame
C22_Witness ==
    /\ Failed
    /\ page.keysBound
    /\ truckController.controls["gas"]
    /\ KeySource([key |-> "ArrowUp", code |-> "ArrowUp"]) \in held
    /\ page.reports = 1
    /\ page.panels = 1
    /\ page.console = <<"Game.createGameObjects", "Game.init", "main", "main">>
    /\ page.starts = 0
    /\ truckController.speed = DZero
    /\ renderer = <<>>

PerformanceClasses == {"LOW", "AVERAGE", "HIGH"}

SettingNames ==
    {"pixelRatio", "targetFPS", "shadows", "antialias", "maxLights", "particlesEnabled",
     "postProcessing", "lodDistance", "maxTreeCount", "fogEnabled", "fogNear", "fogFar"}

\* C26: once the PerformanceManager is constructed its performanceClass is LOW,
\* AVERAGE or HIGH and its settings are the whole configuration of that class,
\* whatever class Telegram reports and whatever the mobile flag and device memory
C26_SettingsOfClass ==
    page.constructions > 0 =>
        LET pm == page.perfManager
            class == pm.performanceClass
        IN  /\ class \in PerformanceClasses
            /\ DOMAIN pm.settings = SettingNames
            /\ pm.settings.maxTreeCount =
                  (IF class = "LOW" THEN 20 ELSE IF class = "AVERAGE" THEN 40 ELSE 60)
            /\ pm.settings.shadows = (class # "LOW")
            /\ pm.settings.antialias = (class # "LOW")
            /\ pm.settings.fogEnabled
            /\ pm.settings.fogNear =
                  (IF class = "LOW" THEN 20 ELSE IF class = "AVERAGE" THEN 40 ELSE 60)
            /\ pm.settings.fogFar =
                  (IF class = "LOW" THEN 50 ELSE IF class = "AVERAGE" THEN 100 ELSE 150)
            /\ pm.settings.pixelRatio > 0
            /\ pm.settings.pixelRatio <= 2000000

====
